---- MODULE Spec2Model ----
(***************************************************************************)
(* Margin-note synchronisation: the anchor/note reconciler                 *)
(* (src/src/margin-notes/MarginNoteReconciler.ts) and the host's           *)
(* anchor-change handler that applies its result.                          *)
(***************************************************************************)
EXTENDS Integers, Sequences, FiniteSets, TLC

(* ---------------------------- bounds ----------------------------------- *)
MaxAnchors == 2
MaxNotes == 2

Ids == {"n1", "n2", "n3"}

(* (line, blockIndex) pairs: two on one line, one on an earlier line *)
Positions ==
  {[line |-> -1, blockIndex |-> 0], [line |-> 0, blockIndex |-> -1],
   [line |-> 0, blockIndex |-> 0]}

NoteIndices == {1, 2}

(* values read from Date.now() *)
Clock == {1, 2}

(* a value standing for JavaScript's undefined in a string-typed field *)
Undefined == "<undefined>"

(* ---------------------------- data ------------------------------------- *)
AnchorData ==
  {[id |-> i, line |-> p.line, blockIndex |-> p.blockIndex] : i \in Ids, p \in Positions}

NoteData == [id : Ids, noteIndex : NoteIndices, line : {0}, blockIndex : {0}]

SeqsUpTo(S, n) == UNION {[1..k -> S] : k \in 0..n}

AnchorLists == SeqsUpTo(AnchorData, MaxAnchors)

NoteLists == SeqsUpTo(NoteData, MaxNotes)

(* ---------------------------- helpers ---------------------------------- *)
IdsOf(s) == {s[i].id : i \in 1..Len(s)}

UniqueIds(s) == \A i, j \in 1..Len(s) : s[i].id = s[j].id => i = j

NoDup(s) == \A i, j \in 1..Len(s) : s[i] = s[j] => i = j

Range(s) == {s[i] : i \in 1..Len(s)}

(* variant: the argument is not copied into the result *)
createBaseMessage_NoCorrelation(now, correlationId) ==
  [version |-> 1, timestamp |-> now, correlationId |-> Undefined]

createBaseMessage(now, correlationId) ==
  [version |-> 1, timestamp |-> now, correlationId |-> correlationId]

(* variant: the comparator forgets the blockIndex tie-break *)
compareAnchors_LineOnly(a, b) == a.line - b.line

(* the comparator handed to Array.prototype.sort *)
compareAnchors(a, b) ==
  IF a.line # b.line THEN a.line - b.line ELSE a.blockIndex - b.blockIndex

(* variant: the later element goes before the elements it ties with *)
InsertSorted_BeforeEqual(x, s) ==
  LET ge == {k \in 1..Len(s) : compareAnchors(s[k], x) >= 0}
  IN IF ge = {} THEN Append(s, x)
     ELSE LET k == CHOOSE m \in ge : \A n \in ge : m <= n
          IN SubSeq(s, 1, k - 1) \o <<x>> \o SubSeq(s, k, Len(s))

(* the element that came later in the input goes after everything that    *)
(* does not compare greater                                                *)
RECURSIVE InsertSorted(_, _)
InsertSorted(x, s) ==
  IF s = <<>> THEN <<x>>
  ELSE IF compareAnchors(Head(s), x) > 0 THEN <<x>> \o s
       ELSE <<Head(s)>> \o InsertSorted(x, Tail(s))

(* [...anchors].sort(cmp): a stable sort of a copy *)
RECURSIVE sortedAnchors(_)
sortedAnchors(anchors) ==
  IF anchors = <<>> THEN <<>>
  ELSE InsertSorted(anchors[Len(anchors)],
                    sortedAnchors(SubSeq(anchors, 1, Len(anchors) - 1)))

(* variant: notes of currentNotes whose anchor is gone are kept at the end *)
newNotesOf_KeepStale(anchors, currentNotes) ==
  LET sorted == sortedAnchors(anchors)
      stale == SelectSeq(currentNotes, LAMBDA n : n.id \notin IdsOf(anchors))
  IN [index \in 1..(Len(sorted) + Len(stale)) |->
        IF index <= Len(sorted)
        THEN [id |-> sorted[index].id, noteIndex |-> index,
              line |-> sorted[index].line, blockIndex |-> sorted[index].blockIndex]
        ELSE [id |-> stale[index - Len(sorted)].id, noteIndex |-> index,
              line |-> stale[index - Len(sorted)].line,
              blockIndex |-> stale[index - Len(sorted)].blockIndex]]

(* variant: a note that already exists keeps the noteIndex it had *)
newNotesOf_Inherit(anchors, currentNotes) ==
  LET sorted == sortedAnchors(anchors)
      old(id) == {i \in 1..Len(currentNotes) : currentNotes[i].id = id}
  IN [index \in 1..Len(sorted) |->
        [id |-> sorted[index].id,
         noteIndex |-> IF old(sorted[index].id) = {} THEN index
                       ELSE currentNotes[CHOOSE i \in old(sorted[index].id) : TRUE].noteIndex,
         line |-> sorted[index].line,
         blockIndex |-> sorted[index].blockIndex]]

(* step 2: the new notes, indexed by sorted position *)
newNotesOf(anchors, currentNotes) ==
  LET sorted == sortedAnchors(anchors)
  IN [index \in 1..Len(sorted) |->
        [id |-> sorted[index].id,
         noteIndex |-> index,
         line |-> sorted[index].line,
         blockIndex |-> sorted[index].blockIndex]]

(* new Map(currentNotes.map(n => [n.id, n.noteIndex])).get(id):           *)
(* on a repeated key the last entry wins; 0 stands for undefined          *)
currentIndexMapGet(currentNotes, id) ==
  LET hits == {i \in 1..Len(currentNotes) : currentNotes[i].id = id}
  IN IF hits = {} THEN 0
     ELSE currentNotes[CHOOSE i \in hits : \A j \in hits : j <= i].noteIndex

(* variant: the search skips the first element *)
findNote_SkipFirst(notes, noteId) ==
  LET hits == {i \in 2..Len(notes) : notes[i].id = noteId}
  IN IF hits = {} THEN 0 ELSE CHOOSE i \in hits : \A j \in hits : i <= j

(* newNotes.find(n => n.id === noteId): position of the first match, 0 if none *)
findNote(notes, noteId) ==
  LET hits == {i \in 1..Len(notes) : notes[i].id = noteId}
  IN IF hits = {} THEN 0 ELSE CHOOSE i \in hits : \A j \in hits : i <= j

RECURSIVE MapIds(_)
MapIds(s) == IF s = <<>> THEN <<>> ELSE <<Head(s).id>> \o MapIds(Tail(s))

removedOf(currentNotes, newNotes) ==
  MapIds(SelectSeq(currentNotes, LAMBDA note : note.id \notin IdsOf(newNotes)))

addedOf(currentNotes, newNotes) ==
  MapIds(SelectSeq(newNotes, LAMBDA note : note.id \notin IdsOf(currentNotes)))

(* variant: every surviving note is reported as reordered *)
reorderedOf_AllSurvivors(currentNotes, newNotes) ==
  MapIds(SelectSeq(newNotes, LAMBDA note : note.id \in IdsOf(currentNotes)))

reorderedOf(currentNotes, newNotes) ==
  MapIds(SelectSeq(newNotes,
           LAMBDA note : /\ note.id \in IdsOf(currentNotes)
                         /\ currentIndexMapGet(currentNotes, note.id) # note.noteIndex))

deleteCommands(removed, now) ==
  [i \in 1..Len(removed) |->
     [base |-> createBaseMessage(now, Undefined),
      type |-> "DELETE_NOTE_BLOCK",
      noteId |-> removed[i],
      noteIndex |-> 0,
      notes |-> <<>>]]

(* variant: the insert carries the position in the added list, not the final index *)
insertCommands_AddedPosition(added, newNotes, now) ==
  [cmds |-> [i \in 1..Len(added) |->
               [base |-> createBaseMessage(now, Undefined),
                type |-> "INSERT_NOTE_BLOCK",
                noteId |-> added[i],
                noteIndex |-> i,
                notes |-> <<>>]],
   threw |-> FALSE]

(* the insertion loop; note.id on an undefined note throws a TypeError *)
RECURSIVE insertCommands(_, _, _)
insertCommands(added, newNotes, now) ==
  IF added = <<>> THEN [cmds |-> <<>>, threw |-> FALSE]
  ELSE LET k == findNote(newNotes, Head(added))
       IN IF k = 0 THEN [cmds |-> <<>>, threw |-> TRUE]
          ELSE LET rest == insertCommands(Tail(added), newNotes, now)
               IN [cmds |-> <<[base |-> createBaseMessage(now, Undefined),
                               type |-> "INSERT_NOTE_BLOCK",
                               noteId |-> newNotes[k].id,
                               noteIndex |-> newNotes[k].noteIndex,
                               notes |-> <<>>]>> \o rest.cmds,
                   threw |-> rest.threw]

(* variant: the index update is sent even when there are no notes *)
updateCommands_Always(newNotes, now) ==
  <<[base |-> createBaseMessage(now, Undefined),
     type |-> "UPDATE_NOTE_INDICES",
     noteId |-> Undefined,
     noteIndex |-> 0,
     notes |-> [i \in 1..Len(newNotes) |->
                  [noteId |-> newNotes[i].id, noteIndex |-> newNotes[i].noteIndex]]]>>

updateCommands(newNotes, now) ==
  IF Len(newNotes) > 0
  THEN <<[base |-> createBaseMessage(now, Undefined),
          type |-> "UPDATE_NOTE_INDICES",
          noteId |-> Undefined,
          noteIndex |-> 0,
          notes |-> [i \in 1..Len(newNotes) |->
                       [noteId |-> newNotes[i].id, noteIndex |-> newNotes[i].noteIndex]]]>>
  ELSE <<>>

(* variant: a pure reordering does not count as a change *)
hasChangesOf_NoReorder(added, removed, reordered) ==
  Len(added) > 0 \/ Len(removed) > 0

hasChangesOf(added, removed, reordered) ==
  Len(added) > 0 \/ Len(removed) > 0 \/ Len(reordered) > 0

(* variant: insertions are emitted before deletions *)
commandsOf_InsertFirst(removed, added, newNotes, now) ==
  LET ins == insertCommands(added, newNotes, now)
  IN [cmds |-> ins.cmds \o deleteCommands(removed, now)
                 \o updateCommands(newNotes, now),
      threw |-> ins.threw]

(* step 4: deletions, then insertions, then the index update *)
commandsOf(removed, added, newNotes, now) ==
  LET ins == insertCommands(added, newNotes, now)
  IN [cmds |-> deleteCommands(removed, now) \o ins.cmds
                 \o updateCommands(newNotes, now),
      threw |-> ins.threw]

reconcile(anchors, currentNotes, now) ==
  LET newNotes == newNotesOf(anchors, currentNotes)
      added == addedOf(currentNotes, newNotes)
      removed == removedOf(currentNotes, newNotes)
      reordered == reorderedOf(currentNotes, newNotes)
      built == commandsOf(removed, added, newNotes, now)
  IN [notes |-> newNotes,
      commands |-> built.cmds,
      diff |-> [added |-> added, removed |-> removed, reordered |-> reordered,
                hasChanges |-> hasChangesOf(added, removed, reordered)],
      threw |-> built.threw]

NoOutput ==
  [notes |-> <<>>, commands |-> <<>>,
   diff |-> [added |-> <<>>, removed |-> <<>>, reordered |-> <<>>, hasChanges |-> FALSE],
   threw |-> FALSE]

(* ---------------------------- state ------------------------------------ *)
VARIABLES
  pc,              \* position of the reconcile caller
  anchors,         \* the anchors argument
  currentNotes,    \* the currentNotes argument
  out,             \* the value returned by the last reconcile call
  snapshot,        \* the latest anchor snapshot handed to a threading caller
  threaded,        \* the note list that caller threads through reconcile
  marginNotes,     \* host: the marginNotes state cell (the value last set)
  marginNotesRef,  \* host: marginNotesRef.current
  selectedNoteId,  \* host: the selectedNoteId state cell (the value last set)
  selectedClosure, \* host: the selectedNoteId the callbacks closed over at the last render
  panelCalls,      \* host: the calls made on notesPanelRef by the step just taken
  hostOp,          \* host: the handler that ran last
  lastHasChanges,  \* host: diff.hasChanges of the last reconcile call
  lastAnchors,     \* host: the anchors argument of the last handleAnchorsChanged call
  editorReady,     \* margin editor: whether the editor instance exists
  marginDoc,       \* margin editor: the marginNoteBlock nodes of its document, in document order
  marginTrace,     \* margin editor: the documents the last handler call took it through
  mainDoc,         \* main editor: the ids of the marginNote anchors of its document, in document order
  anchorQueue,     \* main editor -> host: the anchor-positions reports not yet handled
  deleteArg,       \* host: the noteId argument of the last handleDeleteNoteFromPanel call
  focusState,      \* focus: the state the reducer was last folded to
  focusEvents,     \* focus: the events dispatched so far, oldest first
  focusTrace,      \* focus: the states focusState went through, oldest first
  twinState,       \* focus: the state of a second run fed the same events
  twinPos,         \* focus: how many of focusEvents the second run has consumed
  updateQueue,     \* provider: the events dispatched to useReducer and not yet rendered
  contextValue,    \* provider: the context value of the last render
  providerCalls,   \* provider: the calls made on the context's functions, oldest first
  toolbarOp,       \* host: the toolbar handler that ran last and the editors it called
  subscriptions,   \* registry: messageId -> the request whose resolve is stored
  timeouts,        \* registry: messageId -> the timer handle stored
  requests,        \* registry: per sendAsyncMessage call, its id, timer and resolve calls
  asyncOp,         \* registry: the operation that ran last and what it returned
  protoOp,         \* protocol: the function of the protocol module called last
  protoArg,        \* protocol: its argument
  protoRes         \* protocol: the value it returned

reconcileVars == <<pc, anchors, currentNotes, out>>

threadVars == <<snapshot, threaded>>

hostVars == <<marginNotes, marginNotesRef, selectedNoteId, selectedClosure,
              panelCalls, hostOp, lastHasChanges,
              lastAnchors, editorReady, marginDoc, marginTrace,
              mainDoc, anchorQueue, deleteArg>>

vars == <<pc, anchors, currentNotes, out, snapshot, threaded,
          marginNotes, marginNotesRef, selectedNoteId, selectedClosure,
          panelCalls, hostOp, lastHasChanges,
          lastAnchors, editorReady, marginDoc, marginTrace,
          mainDoc, anchorQueue, deleteArg,
          focusState, focusEvents, focusTrace, twinState, twinPos,
          updateQueue, contextValue, providerCalls, toolbarOp,
          subscriptions, timeouts, requests, asyncOp,
          protoOp, protoArg, protoRes>>

protoVars == <<protoOp, protoArg, protoRes>>

providerVars == <<updateQueue, contextValue, providerCalls, toolbarOp>>

focusVars == <<focusState, focusEvents, focusTrace, twinState, twinPos, providerVars>>

asyncVars == <<subscriptions, timeouts, requests, asyncOp>>

Null == "<null>"

ThreadIdle == snapshot = <<>> /\ threaded = <<>>

LoopIdle == mainDoc = <<>> /\ anchorQueue = <<>> /\ deleteArg = Null

HostIdle ==
  /\ marginNotes = <<>> /\ marginNotesRef = <<>>
  /\ selectedNoteId = Null /\ selectedClosure = Null
  /\ panelCalls = <<>> /\ hostOp = "init" /\ lastHasChanges = FALSE
  /\ lastAnchors = <<>>
  /\ editorReady = FALSE /\ marginDoc = <<>> /\ marginTrace = <<>>
  /\ LoopIdle

(* ---------------------- the focus state machine ------------------------ *)
FocusStates ==
  {[type |-> "IDLE"], [type |-> "MAIN_FOCUSED"]}
    \cup {[type |-> "NOTE_FOCUSED", noteId |-> i] : i \in Ids}

FocusEvents ==
  {[type |-> t] : t \in {"MAIN_EDITOR_FOCUS", "MAIN_EDITOR_BLUR", "NOTE_BLUR", "RESET"}}
    \cup {[type |-> "NOTE_FOCUS", noteId |-> i] : i \in Ids}

initialFocusState == [type |-> "IDLE"]

(* variant: either blur event leaves any state for IDLE *)
focusReducer_BlurAnywhere(state, event) ==
  IF event.type \in {"RESET", "MAIN_EDITOR_BLUR", "NOTE_BLUR"} THEN [type |-> "IDLE"]
  ELSE IF event.type = "MAIN_EDITOR_FOCUS" THEN [type |-> "MAIN_FOCUSED"]
  ELSE [type |-> "NOTE_FOCUSED", noteId |-> event.noteId]

(* variant: the inner switches have no default branch *)
focusReducer_Partial(state, event) ==
  IF event.type = "RESET" THEN [type |-> "IDLE"]
  ELSE IF event.type = "MAIN_EDITOR_FOCUS" THEN [type |-> "MAIN_FOCUSED"]
  ELSE IF event.type = "NOTE_FOCUS" THEN [type |-> "NOTE_FOCUSED", noteId |-> event.noteId]
  ELSE IF \/ event.type = "MAIN_EDITOR_BLUR" /\ state.type = "MAIN_FOCUSED"
          \/ event.type = "NOTE_BLUR" /\ state.type = "NOTE_FOCUSED"
       THEN [type |-> "IDLE"]
  ELSE [type |-> Undefined]

(* variant: a NOTE_BLUR that arrives in MAIN_FOCUSED clears the focus *)
focusReducer_LateBlur(state, event) ==
  IF event.type = "RESET" THEN [type |-> "IDLE"]
  ELSE IF event.type = "MAIN_EDITOR_FOCUS" THEN [type |-> "MAIN_FOCUSED"]
  ELSE IF event.type = "NOTE_FOCUS" THEN [type |-> "NOTE_FOCUSED", noteId |-> event.noteId]
  ELSE IF event.type = "MAIN_EDITOR_BLUR"
       THEN (IF state.type = "MAIN_FOCUSED" THEN [type |-> "IDLE"] ELSE state)
  ELSE IF state.type = "IDLE" THEN state ELSE [type |-> "IDLE"]

(* variant: a NOTE_FOCUS that arrives in NOTE_FOCUSED keeps the note *)
focusReducer_KeepNote(state, event) ==
  IF event.type = "RESET" THEN [type |-> "IDLE"]
  ELSE IF event.type = "MAIN_EDITOR_FOCUS" THEN [type |-> "MAIN_FOCUSED"]
  ELSE IF event.type = "NOTE_FOCUS"
       THEN (IF state.type = "NOTE_FOCUSED" THEN state
             ELSE [type |-> "NOTE_FOCUSED", noteId |-> event.noteId])
  ELSE IF \/ event.type = "MAIN_EDITOR_BLUR" /\ state.type = "MAIN_FOCUSED"
          \/ event.type = "NOTE_BLUR" /\ state.type = "NOTE_FOCUSED"
       THEN [type |-> "IDLE"]
  ELSE state

focusReducer(state, event) ==
  IF event.type = "RESET" THEN [type |-> "IDLE"]
  ELSE CASE state.type = "IDLE" ->
              (CASE event.type = "MAIN_EDITOR_FOCUS" -> [type |-> "MAIN_FOCUSED"]
                 [] event.type = "NOTE_FOCUS" ->
                      [type |-> "NOTE_FOCUSED", noteId |-> event.noteId]
                 [] OTHER -> state)
         [] state.type = "MAIN_FOCUSED" ->
              (CASE event.type = "MAIN_EDITOR_BLUR" -> [type |-> "IDLE"]
                 [] event.type = "NOTE_FOCUS" ->
                      [type |-> "NOTE_FOCUSED", noteId |-> event.noteId]
                 [] OTHER -> state)
         [] state.type = "NOTE_FOCUSED" ->
              (CASE event.type = "NOTE_BLUR" -> [type |-> "IDLE"]
                 [] event.type = "MAIN_EDITOR_FOCUS" -> [type |-> "MAIN_FOCUSED"]
                 [] event.type = "NOTE_FOCUS" ->
                      [type |-> "NOTE_FOCUSED", noteId |-> event.noteId]
                 [] OTHER -> state)
         [] OTHER -> state

isMainFocused(state) == state.type = "MAIN_FOCUSED"

isNoteFocused(state) == state.type = "NOTE_FOCUSED"

(* variant: the note id is reported whatever the state *)
getFocusedNoteId_Sticky(state) ==
  IF "noteId" \in DOMAIN state THEN state.noteId ELSE "n1"

getFocusedNoteId(state) == IF state.type = "NOTE_FOCUSED" THEN state.noteId ELSE Null

isSpecificNoteFocused(state, noteId) ==
  state.type = "NOTE_FOCUSED" /\ state.noteId = noteId

(* variant: a focused note does not take the toolbar from the main editor *)
getToolbarTarget_MainOnly(state) ==
  CASE state.type = "MAIN_FOCUSED" -> "main"
    [] state.type = "NOTE_FOCUSED" -> Null
    [] state.type = "IDLE" -> Null
    [] OTHER -> Undefined

getToolbarTarget(state) ==
  CASE state.type = "MAIN_FOCUSED" -> "main"
    [] state.type = "NOTE_FOCUSED" -> "margin"
    [] state.type = "IDLE" -> Null
    [] OTHER -> Undefined

hasAnyFocus(state) == state.type # "IDLE"

(* no toolbar handler has run *)
NoToolbarOp == [command |-> Null, sent |-> {}]

ProviderIdle ==
  /\ updateQueue = <<>> /\ contextValue = Null
  /\ providerCalls = <<>> /\ toolbarOp = NoToolbarOp

FocusIdle ==
  /\ focusState = initialFocusState
  /\ focusEvents = <<>>
  /\ focusTrace = <<>>
  /\ twinState = initialFocusState
  /\ twinPos = 0
  /\ ProviderIdle

(* ------------------ the async correlation registry --------------------- *)
MaxRequests == 2

(* outcomes of Math.random().toString(36).substring(2, 9) *)
RandomParts == {"k", "q"}

Digits36 ==
  <<"0", "1", "2", "3", "4", "5", "6", "7", "8", "9", "a", "b", "c", "d", "e", "f",
    "g", "h", "i", "j", "k", "l", "m", "n", "o", "p", "q", "r", "s", "t", "u", "v",
    "w", "x", "y", "z">>

(* Number.prototype.toString(36) on a non-negative integer *)
RECURSIVE toString36(_)
toString36(n) ==
  IF n < 36 THEN Digits36[n + 1]
  ELSE toString36(n \div 36) \o Digits36[(n % 36) + 1]

(* the random part followed by Date.now() in base 36 *)
generateMessageId(random, now) == random \o toString36(now)

MessageIds == {generateMessageId(random, now) : random \in RandomParts, now \in Clock}

(* the values a CONTENT_RESPONSE hands to handleResponse *)
Values == {"v1", "v2"}

(* a Map from message ids; 0 stands for no entry *)
EmptyMap == [m \in MessageIds |-> 0]

(* Map.prototype.has *)
mapHas(map, messageId) == map[messageId] # 0

(* variant: the lookup yields the entry registered last, whatever its key *)
mapGet_Latest(map, messageId) ==
  IF map[messageId] = 0 THEN 0
  ELSE CHOOSE n \in {map[m] : m \in MessageIds} : \A m \in MessageIds : map[m] <= n

(* Map.prototype.get; 0 stands for undefined *)
mapGet(map, messageId) == map[messageId]

(* Map.prototype.set *)
mapSet(map, messageId, n) == [map EXCEPT ![messageId] = n]

(* variant: delete leaves the entry in place *)
mapDelete_Keep(map, messageId) == map

(* Map.prototype.delete *)
mapDelete(map, messageId) == [map EXCEPT ![messageId] = 0]

(* variant: clearTimeout does not disarm the timer *)
clearTimeout_Noop(timer) == timer

(* clearTimeout on a timer: a timer that is not armed is left as it is *)
clearTimeout(timer) == IF timer = "armed" THEN "cleared" ELSE timer

(* variant: the resolver drops its argument *)
resolve_DropValue(resolved, value) == Append(resolved, Null)

(* a call of the promise's resolve function with value *)
resolve(resolved, value) == Append(resolved, value)

NoAsyncOp == [op |-> "init", messageId |-> Undefined, value |-> Undefined, ret |-> FALSE]

AsyncIdle ==
  /\ subscriptions = EmptyMap
  /\ timeouts = EmptyMap
  /\ requests = <<>>
  /\ asyncOp = NoAsyncOp

(* ------------------------ the protocol module -------------------------- *)
(* a message name: its words, written lower-case with hyphens or upper-case *)
(* with underscores                                                        *)
hyphen(words) == [style |-> "lower-hyphen", words |-> words]

snake(words) == [style |-> "UPPER_SNAKE", words |-> words]

(* what indexing an object yields for a key it does not have *)
NoName == [style |-> "undefined", words |-> <<>>]

(* s.toUpperCase().replace(/-/g, '_') *)
toUpperSnake(name) == [style |-> "UPPER_SNAKE", words |-> name.words]

(* s.toLowerCase().replace(/_/g, '-') *)
toLowerHyphen(name) == [style |-> "lower-hyphen", words |-> name.words]

(* the entries of the object literal, in source order *)
LEGACY_TO_NEW ==
  <<
    <<hyphen(<<"editor", "ready">>), snake(<<"editor", "ready">>)>>,
    <<hyphen(<<"editor", "focus">>), snake(<<"editor", "focus">>)>>,
    <<hyphen(<<"editor", "blur">>), snake(<<"editor", "blur">>)>>,
    <<hyphen(<<"content", "change">>), snake(<<"content", "changed">>)>>,
    <<hyphen(<<"selection", "change">>), snake(<<"selection", "changed">>)>>,
    <<hyphen(<<"anchor", "positions">>), snake(<<"anchors", "changed">>)>>,
    <<hyphen(<<"content", "response">>), snake(<<"content", "response">>)>>,
    <<hyphen(<<"margin", "note", "deleted">>), snake(<<"margin", "note", "deleted">>)>>,
    <<hyphen(<<"set", "content">>), snake(<<"set", "content">>)>>,
    <<hyphen(<<"get", "content">>), snake(<<"get", "content">>)>>,
    <<hyphen(<<"focus">>), snake(<<"focus">>)>>,
    <<hyphen(<<"blur">>), snake(<<"blur">>)>>,
    <<hyphen(<<"toggle", "bold">>), snake(<<"toggle", "bold">>)>>,
    <<hyphen(<<"toggle", "italic">>), snake(<<"toggle", "italic">>)>>,
    <<hyphen(<<"insert", "square">>), snake(<<"insert", "square">>)>>,
    <<hyphen(<<"insert", "circle">>), snake(<<"insert", "circle">>)>>,
    <<hyphen(<<"insert", "flower">>), snake(<<"insert", "flower">>)>>,
    <<hyphen(<<"insert", "margin", "note">>), snake(<<"insert", "margin", "note">>)>>,
    <<hyphen(<<"delete", "margin", "note">>), snake(<<"delete", "margin", "note">>)>>,
    <<hyphen(<<"get", "anchor", "positions">>), snake(<<"get", "anchor", "positions">>)>>,
    <<hyphen(<<"note", "block", "focus">>), snake(<<"note", "block", "focus">>)>>,
    <<hyphen(<<"insert", "note", "block">>), snake(<<"insert", "note", "block">>)>>,
    <<hyphen(<<"delete", "note", "block">>), snake(<<"delete", "note", "block">>)>>,
    <<hyphen(<<"update", "note", "block", "index">>), snake(<<"update", "note", "block", "index">>)>>,
    <<hyphen(<<"update", "all", "note", "block", "indices">>), snake(<<"update", "all", "note", "block", "indices">>)>>,
    <<hyphen(<<"focus", "note", "block">>), snake(<<"focus", "note", "block">>)>>
  >>

(* variant: the main editor's table is the one-to-one table *)
LegacyMainEditorMessageMap_OneToOne == LEGACY_TO_NEW

LegacyMainEditorMessageMap ==
  <<
    <<hyphen(<<"editor", "ready">>), snake(<<"editor", "ready">>)>>,
    <<hyphen(<<"editor", "focus">>), snake(<<"editor", "focus">>)>>,
    <<hyphen(<<"editor", "blur">>), snake(<<"editor", "blur">>)>>,
    <<hyphen(<<"content", "change">>), snake(<<"content", "changed">>)>>,
    <<hyphen(<<"selection", "change">>), snake(<<"selection", "changed">>)>>,
    <<hyphen(<<"anchor", "positions">>), snake(<<"anchors", "changed">>)>>,
    <<hyphen(<<"content", "response">>), snake(<<"content", "response">>)>>,
    <<hyphen(<<"set", "content">>), snake(<<"set", "content">>)>>,
    <<hyphen(<<"get", "content">>), snake(<<"get", "content">>)>>,
    <<hyphen(<<"focus">>), snake(<<"focus">>)>>,
    <<hyphen(<<"blur">>), snake(<<"blur">>)>>,
    <<hyphen(<<"toggle", "bold">>), snake(<<"format">>)>>,
    <<hyphen(<<"toggle", "italic">>), snake(<<"format">>)>>,
    <<hyphen(<<"insert", "square">>), snake(<<"insert", "shape">>)>>,
    <<hyphen(<<"insert", "circle">>), snake(<<"insert", "shape">>)>>,
    <<hyphen(<<"insert", "flower">>), snake(<<"insert", "shape">>)>>,
    <<hyphen(<<"insert", "margin", "note">>), snake(<<"insert", "margin", "note">>)>>,
    <<hyphen(<<"delete", "margin", "note">>), snake(<<"delete", "margin", "note">>)>>
  >>

LegacyMarginEditorMessageMap ==
  <<
    <<hyphen(<<"editor", "ready">>), snake(<<"editor", "ready">>)>>,
    <<hyphen(<<"editor", "focus">>), snake(<<"editor", "focus">>)>>,
    <<hyphen(<<"editor", "blur">>), snake(<<"editor", "blur">>)>>,
    <<hyphen(<<"content", "change">>), snake(<<"content", "changed">>)>>,
    <<hyphen(<<"selection", "change">>), snake(<<"selection", "changed">>)>>,
    <<hyphen(<<"note", "block", "focus">>), snake(<<"editor", "focus">>)>>,
    <<hyphen(<<"delete", "margin", "note">>), snake(<<"note", "deleted">>)>>,
    <<hyphen(<<"content", "response">>), snake(<<"content", "response">>)>>,
    <<hyphen(<<"set", "content">>), snake(<<"set", "content">>)>>,
    <<hyphen(<<"get", "content">>), snake(<<"get", "content">>)>>,
    <<hyphen(<<"focus">>), snake(<<"focus">>)>>,
    <<hyphen(<<"blur">>), snake(<<"blur">>)>>,
    <<hyphen(<<"toggle", "bold">>), snake(<<"format">>)>>,
    <<hyphen(<<"toggle", "italic">>), snake(<<"format">>)>>,
    <<hyphen(<<"insert", "square">>), snake(<<"insert", "shape">>)>>,
    <<hyphen(<<"insert", "circle">>), snake(<<"insert", "shape">>)>>,
    <<hyphen(<<"insert", "flower">>), snake(<<"insert", "shape">>)>>,
    <<hyphen(<<"insert", "note", "block">>), snake(<<"insert", "note", "block">>)>>,
    <<hyphen(<<"delete", "note", "block">>), snake(<<"delete", "note", "block">>)>>,
    <<hyphen(<<"update", "note", "block", "index">>), snake(<<"update", "note", "indices">>)>>,
    <<hyphen(<<"update", "all", "note", "block", "indices">>), snake(<<"update", "note", "indices">>)>>,
    <<hyphen(<<"focus", "note", "block">>), snake(<<"focus", "note">>)>>
  >>

(* object[key]: the value of the last entry written under key *)
objectGet(entries, key) ==
  LET K == {k \in 1..Len(entries) : entries[k][1] = key}
  IN IF K = {} THEN NoName
     ELSE entries[CHOOSE k \in K : \A j \in K : j <= k][2]

(* Object.fromEntries(Object.entries(LEGACY_TO_NEW).map(swap)) *)
NEW_TO_LEGACY ==
  [k \in 1..Len(LEGACY_TO_NEW) |-> <<LEGACY_TO_NEW[k][2], LEGACY_TO_NEW[k][1]>>]

(* variant: the table is not consulted *)
toLegacyType_Mechanical(newType) == toLowerHyphen(newType)

toLegacyType(newType) ==
  IF objectGet(NEW_TO_LEGACY, newType) # NoName
  THEN objectGet(NEW_TO_LEGACY, newType)
  ELSE toLowerHyphen(newType)

fromLegacyType(legacyType) ==
  IF objectGet(LEGACY_TO_NEW, legacyType) # NoName
  THEN objectGet(LEGACY_TO_NEW, legacyType)
  ELSE toUpperSnake(legacyType)

ProtoIdle == protoOp = "init" /\ protoArg = NoName /\ protoRes = NoName

(* ------------------ the pure function, on drawn inputs ----------------- *)
InitReconcile ==
  /\ pc = "input"
  /\ anchors \in AnchorLists
  /\ currentNotes \in NoteLists
  /\ out = NoOutput
  /\ ThreadIdle
  /\ HostIdle
  /\ FocusIdle
  /\ AsyncIdle
  /\ ProtoIdle

Call ==
  /\ pc = "input"
  /\ \E now \in Clock : out' = reconcile(anchors, currentNotes, now)
  /\ pc' = "called"
  /\ UNCHANGED <<anchors, currentNotes, threadVars, hostVars, focusVars, asyncVars, protoVars>>

(* the caller feeds the returned notes back with the same anchors *)
CallAgain ==
  /\ pc = "called"
  /\ ~out.threw
  /\ currentNotes' = out.notes
  /\ \E now \in Clock : out' = reconcile(anchors, out.notes, now)
  /\ pc' = "again"
  /\ UNCHANGED <<anchors, threadVars, hostVars, focusVars, asyncVars, protoVars>>

NextReconcile == Call \/ CallAgain

SpecReconcile == InitReconcile /\ [][NextReconcile]_vars

(* ------------- a caller that threads its notes through reconcile ------- *)
(* a report of the main document: its live anchors, each id once *)
ThreadSnapshots == {A \in AnchorLists : UniqueIds(A)}

InitThread ==
  /\ pc = "start"
  /\ anchors = <<>> /\ currentNotes = <<>> /\ out = NoOutput
  /\ snapshot = <<>>
  /\ threaded \in NoteLists
  /\ HostIdle
  /\ FocusIdle
  /\ AsyncIdle
  /\ ProtoIdle

Thread ==
  /\ pc \in {"start", "threaded"}
  /\ \E A \in ThreadSnapshots : \E now \in Clock :
       /\ snapshot' = A
       /\ threaded' = reconcile(A, threaded, now).notes
  /\ pc' = "threaded"
  /\ UNCHANGED <<anchors, currentNotes, out, hostVars, focusVars, asyncVars, protoVars>>

NextThread == Thread

SpecThread == InitThread /\ [][NextThread]_vars

(* ------------------- the host's anchor-change handler ------------------ *)
MaxSnapshot == 2

(* the editors count lines and blocks from one upwards *)
HostPositions == {[line |-> 1, blockIndex |-> 1], [line |-> 2, blockIndex |-> 2]}

HostAnchorData ==
  {[id |-> i, line |-> p.line, blockIndex |-> p.blockIndex] : i \in Ids, p \in HostPositions}

Snapshots == {A \in SeqsUpTo(HostAnchorData, MaxSnapshot) : UniqueIds(A)}

(* variant: the handler never takes the early return *)
skipDispatch_Never(diff) == FALSE

(* if (!diff.hasChanges) return; *)
skipDispatch(diff) == ~diff.hasChanges

(* the call on notesPanelRef.current a command is turned into *)
panelCallOf(cmd) ==
  IF cmd.type = "INSERT_NOTE_BLOCK"
  THEN [op |-> "insertNoteBlock", id |-> cmd.noteId, noteIndex |-> cmd.noteIndex,
        notes |-> <<>>]
  ELSE IF cmd.type = "DELETE_NOTE_BLOCK"
  THEN [op |-> "deleteNoteBlock", id |-> cmd.noteId, noteIndex |-> 0, notes |-> <<>>]
  ELSE [op |-> "updateNoteIndices", id |-> Undefined, noteIndex |-> 0,
        notes |-> [k \in 1..Len(cmd.notes) |->
                     [id |-> cmd.notes[k].noteId, noteIndex |-> cmd.notes[k].noteIndex,
                      line |-> 0, blockIndex |-> 0]]]

(* --------------------- the margin editor's document -------------------- *)
(* a marginNoteBlock node, by its two attributes *)
MarginBlocks == [noteId : Ids, noteIndex : NoteIndices]

(* insertPos starts at doc.content.size; the walk stops at the first block *)
(* whose noteIndex is >= the new one and the block is inserted there       *)
insertMarginNoteBlock(doc, noteId, noteIndex) ==
  LET later == {k \in 1..Len(doc) : doc[k].noteIndex >= noteIndex}
      block == [noteId |-> noteId, noteIndex |-> noteIndex]
  IN IF later = {} THEN Append(doc, block)
     ELSE LET k == CHOOSE m \in later : \A n \in later : m <= n
          IN SubSeq(doc, 1, k - 1) \o <<block>> \o SubSeq(doc, k, Len(doc))

(* variant: every block is kept *)
deleteMarginNoteBlock_Keep(doc, noteId) == doc

(* the first block with that noteId is deleted; without one nothing happens *)
deleteMarginNoteBlock(doc, noteId) ==
  LET found == {k \in 1..Len(doc) : doc[k].noteId = noteId}
  IN IF found = {} THEN doc
     ELSE LET k == CHOOSE m \in found : \A n \in found : m <= n
          IN SubSeq(doc, 1, k - 1) \o SubSeq(doc, k + 1, Len(doc))

(* variant: find never matches *)
findIndexUpdate_Miss(indices, noteId) == 0

(* indices.find(i => i.noteId === noteId): the first entry for that id;    *)
(* 0 stands for undefined                                                  *)
findIndexUpdate(indices, noteId) ==
  LET found == {k \in 1..Len(indices) : indices[k].noteId = noteId}
  IN IF found = {} THEN 0
     ELSE indices[CHOOSE m \in found : \A n \in found : m <= n].noteIndex

(* variant: the indices are left as they are *)
updateAllNoteBlockIndices_Noop(doc, indices) == doc

(* every block with an entry in indices gets that entry's noteIndex as its *)
(* attribute; no block is moved                                            *)
updateAllNoteBlockIndices(doc, indices) ==
  [k \in 1..Len(doc) |->
     IF findIndexUpdate(indices, doc[k].noteId) # 0
     THEN [doc[k] EXCEPT !.noteIndex = findIndexUpdate(indices, doc[k].noteId)]
     ELSE doc[k]]

(* the noteIds of the blocks of a document *)
BlockIdsOf(doc) == {doc[k].noteId : k \in 1..Len(doc)}

(* the message a call on the notes panel reaches the margin editor as *)
panelMessageOf(call) ==
  IF call.op = "insertNoteBlock"
  THEN [type |-> "insert-note-block", noteId |-> call.id, noteIndex |-> call.noteIndex,
        indices |-> <<>>]
  ELSE IF call.op = "deleteNoteBlock"
  THEN [type |-> "delete-note-block", noteId |-> call.id, noteIndex |-> 0,
        indices |-> <<>>]
  ELSE [type |-> "update-all-note-block-indices", noteId |-> Undefined, noteIndex |-> 0,
        indices |-> [k \in 1..Len(call.notes) |->
                       [noteId |-> call.notes[k].id,
                        noteIndex |-> call.notes[k].noteIndex]]]

(* the margin editor's message switch, on the document *)
handleMessage(doc, msg) ==
  IF msg.type = "insert-note-block"
  THEN insertMarginNoteBlock(doc, msg.noteId, msg.noteIndex)
  ELSE IF msg.type = "delete-note-block"
  THEN deleteMarginNoteBlock(doc, msg.noteId)
  ELSE IF msg.type = "update-all-note-block-indices"
  THEN updateAllNoteBlockIndices(doc, msg.indices)
  ELSE doc

(* commands.forEach: the documents after 0, 1, ... of the calls, in order; *)
(* without an editor instance every call returns at once                   *)
RECURSIVE applyCalls(_, _, _)
applyCalls(editor, doc, calls) ==
  IF calls = <<>> \/ ~editor THEN <<doc>>
  ELSE <<doc>> \o applyCalls(editor, handleMessage(doc, panelMessageOf(Head(calls))),
                             Tail(calls))

InitHost ==
  /\ pc = "host"
  /\ anchors = <<>> /\ currentNotes = <<>> /\ out = NoOutput
  /\ ThreadIdle
  /\ HostIdle
  /\ FocusIdle
  /\ AsyncIdle
  /\ ProtoIdle

handleAnchorsChangedOn(A) ==
  \E now \in Clock :
    \E r \in {reconcile(A, marginNotesRef, now)} :
       /\ ~r.threw
       /\ hostOp' = "anchors"
       /\ lastAnchors' = A
       /\ lastHasChanges' = r.diff.hasChanges
       /\ IF skipDispatch(r.diff)
          THEN /\ panelCalls' = <<>>
               /\ marginTrace' = <<marginDoc>>
               /\ UNCHANGED <<marginNotes, marginNotesRef, selectedNoteId, marginDoc>>
          ELSE /\ \E calls \in {[k \in 1..Len(r.commands) |-> panelCallOf(r.commands[k])]} :
                    \E trace \in {applyCalls(editorReady, marginDoc, calls)} :
                       /\ panelCalls' = calls
                       /\ marginTrace' = trace
                       /\ marginDoc' = trace[Len(trace)]
               /\ selectedNoteId' =
                    IF \E k \in 1..Len(r.commands) :
                         /\ r.commands[k].type = "DELETE_NOTE_BLOCK"
                         /\ r.commands[k].noteId = selectedClosure
                    THEN Null
                    ELSE selectedNoteId
               /\ marginNotesRef' = r.notes
               /\ marginNotes' = r.notes
       /\ UNCHANGED <<selectedClosure, editorReady, mainDoc, deleteArg,
                      reconcileVars, threadVars, focusVars, asyncVars, protoVars>>

(* the handler, called with any well-formed snapshot *)
handleAnchorsChanged ==
  \E A \in Snapshots : handleAnchorsChangedOn(A) /\ UNCHANGED anchorQueue

(* the margin editor reports the focused note block, or null *)
handleNoteBlockFocus ==
  /\ \E noteId \in IdsOf(marginNotesRef) \cup {Null} : selectedNoteId' = noteId
  /\ hostOp' = "noteBlockFocus"
  /\ panelCalls' = <<>>
  /\ UNCHANGED <<marginNotes, marginNotesRef, selectedClosure, lastHasChanges,
                 lastAnchors, editorReady, marginDoc, marginTrace,
                 mainDoc, anchorQueue, deleteArg,
                 reconcileVars, threadVars, focusVars, asyncVars, protoVars>>

(* a render of AppContent: the body assigns marginNotesRef.current =       *)
(* marginNotes and the callbacks are rebuilt over the current state        *)
Render ==
  /\ marginNotesRef' = marginNotes
  /\ selectedClosure' = selectedNoteId
  /\ hostOp' = "render"
  /\ panelCalls' = <<>>
  /\ UNCHANGED <<marginNotes, selectedNoteId, lastHasChanges,
                 lastAnchors, editorReady, marginDoc, marginTrace,
                 mainDoc, anchorQueue, deleteArg,
                 reconcileVars, threadVars, focusVars, asyncVars, protoVars>>

NextHost == handleAnchorsChanged \/ handleNoteBlockFocus \/ Render

SpecHost == InitHost /\ [][NextHost]_vars

(* ------------- the host driving a margin editor that exists ------------ *)
(* the editor instance has been created and its document holds no block *)
InitMargin ==
  /\ pc = "margin"
  /\ anchors = <<>> /\ currentNotes = <<>> /\ out = NoOutput
  /\ ThreadIdle
  /\ marginNotes = <<>> /\ marginNotesRef = <<>>
  /\ selectedNoteId = Null /\ selectedClosure = Null
  /\ panelCalls = <<>> /\ hostOp = "init" /\ lastHasChanges = FALSE
  /\ lastAnchors = <<>>
  /\ editorReady = TRUE /\ marginDoc = <<>> /\ marginTrace = <<>>
  /\ LoopIdle
  /\ FocusIdle
  /\ AsyncIdle
  /\ ProtoIdle

NextMargin == handleAnchorsChanged

SpecMargin == InitMargin /\ [][NextMargin]_vars

(* --------- the host driving a margin editor whose indices drifted ------ *)
(* the host has processed a snapshot; the margin document holds one block  *)
(* per note, in order, each with some noteIndex attribute                  *)
InitDrift ==
  /\ pc = "drift"
  /\ anchors = <<>> /\ currentNotes = <<>> /\ out = NoOutput
  /\ ThreadIdle
  /\ \E A \in Snapshots :
       /\ lastAnchors = A
       /\ marginNotes = reconcile(A, <<>>, 1).notes
       /\ marginNotesRef = marginNotes
       /\ marginDoc \in {d \in [1..Len(A) -> MarginBlocks] :
                          \A k \in 1..Len(A) : d[k].noteId = marginNotes[k].id}
  /\ selectedNoteId = Null /\ selectedClosure = Null
  /\ panelCalls = <<>> /\ hostOp = "init" /\ lastHasChanges = FALSE
  /\ editorReady = TRUE /\ marginTrace = <<>>
  /\ LoopIdle
  /\ FocusIdle
  /\ AsyncIdle
  /\ ProtoIdle

NextDrift == handleAnchorsChanged

SpecDrift == InitDrift /\ [][NextDrift]_vars

(* ------------- the main editor, the host and the margin editor -------- *)
(* how many anchor-positions reports may be waiting for the host *)
QueueSlots == {1, 2}

(* variant: a report lists every anchor twice *)
getAnchorPositions_Doubled(doc) ==
  [k \in 1..(2 * Len(doc)) |->
     [id |-> doc[(k + 1) \div 2], line |-> (k + 1) \div 2, blockIndex |-> (k + 1) \div 2]]

(* one entry per marginNote node, in document order; every anchor stands   *)
(* in a block of its own, so line and blockIndex count the anchors         *)
getAnchorPositions(doc) ==
  [k \in 1..Len(doc) |-> [id |-> doc[k], line |-> k, blockIndex |-> k]]

(* the ids generateId may return: unique among the live anchors *)
generateId(doc) == Ids \ Range(doc)

(* insertContent at the cursor, which stands after `at` anchors *)
insertMarginNote(doc, id, at) ==
  SubSeq(doc, 1, at) \o <<id>> \o SubSeq(doc, at + 1, Len(doc))

(* variant: the anchor stays in the document *)
deleteMarginNote_Keep(doc, id) == doc

(* every marginNote node with that id is deleted *)
deleteMarginNote(doc, id) == SelectSeq(doc, LAMBDA x : x # id)

InitLoop ==
  /\ pc = "loop"
  /\ anchors = <<>> /\ currentNotes = <<>> /\ out = NoOutput
  /\ ThreadIdle
  /\ marginNotes = <<>> /\ marginNotesRef = <<>>
  /\ selectedNoteId = Null /\ selectedClosure = Null
  /\ panelCalls = <<>> /\ hostOp = "init" /\ lastHasChanges = FALSE
  /\ lastAnchors = <<>>
  /\ editorReady = TRUE /\ marginDoc = <<>> /\ marginTrace = <<>>
  /\ LoopIdle
  /\ FocusIdle
  /\ AsyncIdle
  /\ ProtoIdle

(* the toolbar's note button: only the anchor is inserted; the main editor *)
(* reports its anchors on the update                                       *)
handleInsertMarginNote ==
  /\ Len(mainDoc) < MaxSnapshot
  /\ Len(anchorQueue) + 1 \in QueueSlots
  /\ \E id \in generateId(mainDoc) : \E at \in 0..Len(mainDoc) :
       /\ mainDoc' = insertMarginNote(mainDoc, id, at)
       /\ selectedNoteId' = id
  /\ anchorQueue' = Append(anchorQueue, getAnchorPositions(mainDoc'))
  /\ hostOp' = "insertMarginNote"
  /\ panelCalls' = <<>>
  /\ UNCHANGED <<marginNotes, marginNotesRef, selectedClosure, lastHasChanges,
                 lastAnchors, editorReady, marginDoc, marginTrace, deleteArg,
                 reconcileVars, threadVars, focusVars, asyncVars, protoVars>>

(* the user deletes an anchor in the main editor, which reports on the update *)
deleteAnchor ==
  /\ Len(anchorQueue) + 1 \in QueueSlots
  /\ \E k \in 1..Len(mainDoc) : mainDoc' = deleteMarginNote(mainDoc, mainDoc[k])
  /\ anchorQueue' = Append(anchorQueue, getAnchorPositions(mainDoc'))
  /\ UNCHANGED <<marginNotes, marginNotesRef, selectedNoteId, selectedClosure,
                 panelCalls, hostOp, lastHasChanges,
                 lastAnchors, editorReady, marginDoc, marginTrace, deleteArg,
                 reconcileVars, threadVars, focusVars, asyncVars, protoVars>>

(* setTimeout(sendAnchorPositions, 0) and 'get-anchor-positions': one more *)
(* report of the anchors as they stand                                     *)
sendAnchorPositions ==
  /\ Len(anchorQueue) + 1 \in QueueSlots
  /\ anchorQueue' = Append(anchorQueue, getAnchorPositions(mainDoc))
  /\ UNCHANGED <<marginNotes, marginNotesRef, selectedNoteId, selectedClosure,
                 panelCalls, hostOp, lastHasChanges,
                 lastAnchors, editorReady, marginDoc, marginTrace, mainDoc, deleteArg,
                 reconcileVars, threadVars, focusVars, asyncVars, protoVars>>

(* a click on the badge of an empty note block: the block is deleted, then *)
(* onDeleteNote reaches handleDeleteNoteFromPanel, which has the main      *)
(* editor delete the anchor and report its anchors                         *)
handleDeleteNoteFromPanel ==
  /\ Len(anchorQueue) + 1 \in QueueSlots
  /\ \E noteId \in BlockIdsOf(marginDoc) :
       /\ marginDoc' = deleteMarginNoteBlock(marginDoc, noteId)
       /\ deleteArg' = noteId
       /\ mainDoc' = deleteMarginNote(mainDoc, noteId)
  /\ anchorQueue' = Append(anchorQueue, getAnchorPositions(mainDoc'))
  /\ hostOp' = "deleteNoteFromPanel"
  /\ panelCalls' = <<>>
  /\ UNCHANGED <<marginNotes, marginNotesRef, selectedNoteId, selectedClosure,
                 lastHasChanges, lastAnchors, editorReady, marginTrace,
                 reconcileVars, threadVars, focusVars, asyncVars, protoVars>>

(* the host handles the oldest report *)
onAnchorPositions ==
  /\ anchorQueue # <<>>
  /\ handleAnchorsChangedOn(Head(anchorQueue))
  /\ anchorQueue' = Tail(anchorQueue)

NextLoop ==
  \/ handleInsertMarginNote
  \/ deleteAnchor
  \/ sendAnchorPositions
  \/ handleDeleteNoteFromPanel
  \/ onAnchorPositions
  \/ Render

SpecLoop == InitLoop /\ [][NextLoop]_vars

(* what onAnchorPositions does to the queue: it is enabled exactly when a  *)
(* report is waiting, and no other step takes the head off the queue      *)
takeReport == anchorQueue # <<>> /\ anchorQueue' = Tail(anchorQueue)

(* the host handles every report that reaches it *)
SpecLoopFair == SpecLoop /\ WF_anchorQueue(takeReport)

(* ------------------- dispatching events to the reducer ----------------- *)
MaxEvents == 3

InitFocus ==
  /\ pc = "focus"
  /\ anchors = <<>> /\ currentNotes = <<>> /\ out = NoOutput
  /\ ThreadIdle
  /\ HostIdle
  /\ AsyncIdle
  /\ ProtoIdle
  /\ focusState = initialFocusState
  /\ focusEvents = <<>>
  /\ focusTrace = <<initialFocusState>>
  /\ twinState = initialFocusState
  /\ twinPos = 0
  /\ ProviderIdle

(* one event is folded into the state *)
dispatch ==
  /\ Len(focusEvents) < MaxEvents
  /\ \E event \in FocusEvents :
       /\ focusState' = focusReducer(focusState, event)
       /\ focusEvents' = Append(focusEvents, event)
       /\ focusTrace' = Append(focusTrace, focusReducer(focusState, event))
  /\ UNCHANGED <<twinState, twinPos, providerVars,
                 reconcileVars, threadVars, hostVars, asyncVars, protoVars>>

(* variant: the second run's reducer consults how many events exist *)
replay_Hurried ==
  /\ twinPos < Len(focusEvents)
  /\ twinState' = IF Len(focusEvents) > twinPos + 1
                  THEN twinState
                  ELSE focusReducer(twinState, focusEvents[twinPos + 1])
  /\ twinPos' = twinPos + 1
  /\ UNCHANGED <<focusState, focusEvents, focusTrace, providerVars,
                 reconcileVars, threadVars, hostVars, asyncVars, protoVars>>

(* a second run of the reducer from initialFocusState takes the next of    *)
(* the same events                                                         *)
replay ==
  /\ twinPos < Len(focusEvents)
  /\ twinState' = focusReducer(twinState, focusEvents[twinPos + 1])
  /\ twinPos' = twinPos + 1
  /\ UNCHANGED <<focusState, focusEvents, focusTrace, providerVars,
                 reconcileVars, threadVars, hostVars, asyncVars, protoVars>>

NextFocus == dispatch \/ replay

SpecFocus == InitFocus /\ [][NextFocus]_vars

(* ------------------- the provider and the toolbar ---------------------- *)
MaxCalls == 3

(* the note ids the panel passes to focusNote: it calls it only with a     *)
(* non-empty id                                                            *)
ProviderIds == {"n1", "n2"}

ProviderEvents ==
  {[type |-> t] : t \in {"MAIN_EDITOR_FOCUS", "MAIN_EDITOR_BLUR", "NOTE_BLUR", "RESET"}}
    \cup {[type |-> "NOTE_FOCUS", noteId |-> i] : i \in ProviderIds}

ToolbarCommands ==
  {"toggleBold", "toggleItalic", "insertSquare", "insertCircle", "insertFlower"}

(* useReducer: the queued events are applied to the state oldest first *)
RECURSIVE foldReducer(_, _)
foldReducer(state, events) ==
  IF events = <<>> THEN state
  ELSE foldReducer(focusReducer(state, Head(events)), Tail(events))

(* the useMemo of the provider: the state and its derived values *)
contextValueOf(state) ==
  [focusState |-> state,
   isMainEditorFocused |-> isMainFocused(state),
   focusedNoteId |-> getFocusedNoteId(state),
   toolbarTarget |-> getToolbarTarget(state),
   hasAnyEditorFocus |-> hasAnyFocus(state)]

(* the truthiness test of an if on a string | null *)
Truthy(x) == x # Null /\ x # ""

(* variant: a command goes to the main editor unless a note is focused *)
toolbarSends_MainDefault(isMainEditorFocused, focusedNoteId) ==
  IF Truthy(focusedNoteId) THEN {"margin"} ELSE {"main"}

(* the editors a toolbar handler calls: if (isMainEditorFocused) the main  *)
(* editor, else if (focusedNoteId) the margin editor                       *)
toolbarSends(isMainEditorFocused, focusedNoteId) ==
  IF isMainEditorFocused THEN {"main"}
  ELSE IF Truthy(focusedNoteId) THEN {"margin"}
  ELSE {}

InitProvider ==
  /\ pc = "provider"
  /\ anchors = <<>> /\ currentNotes = <<>> /\ out = NoOutput
  /\ ThreadIdle
  /\ HostIdle
  /\ AsyncIdle
  /\ ProtoIdle
  /\ focusState = initialFocusState
  /\ focusEvents = <<>>
  /\ focusTrace = <<>>
  /\ twinState = initialFocusState
  /\ twinPos = 0
  /\ updateQueue = <<>>
  /\ contextValue = contextValueOf(initialFocusState)
  /\ providerCalls = <<>>
  /\ toolbarOp = NoToolbarOp

(* dispatchFocus(event) as one of the context's functions calls it *)
dispatchFocusFrom(call, arg, event) ==
  /\ Len(providerCalls) < MaxCalls
  /\ updateQueue' = Append(updateQueue, event)
  /\ providerCalls' = Append(providerCalls, [call |-> call, arg |-> arg])
  /\ UNCHANGED <<focusState, focusEvents, focusTrace, twinState, twinPos,
                 contextValue, toolbarOp,
                 reconcileVars, threadVars, hostVars, asyncVars, protoVars>>

dispatchFocus ==
  \E event \in ProviderEvents : dispatchFocusFrom("dispatchFocus", event, event)

focusMainEditor ==
  dispatchFocusFrom("focusMainEditor", Null, [type |-> "MAIN_EDITOR_FOCUS"])

focusNote ==
  \E noteId \in ProviderIds :
    dispatchFocusFrom("focusNote", noteId, [type |-> "NOTE_FOCUS", noteId |-> noteId])

blurMainEditor ==
  dispatchFocusFrom("blurMainEditor", Null, [type |-> "MAIN_EDITOR_BLUR"])

blurNote ==
  dispatchFocusFrom("blurNote", Null, [type |-> "NOTE_BLUR"])

resetFocus ==
  dispatchFocusFrom("resetFocus", Null, [type |-> "RESET"])

(* variant: of the events queued since the last render only the last is applied *)
renderProvider_LastOnly ==
  /\ updateQueue # <<>>
  /\ \E state \in {focusReducer(focusState, updateQueue[Len(updateQueue)])} :
       /\ focusState' = state
       /\ contextValue' = contextValueOf(state)
  /\ updateQueue' = <<>>
  /\ UNCHANGED <<focusEvents, focusTrace, twinState, twinPos, providerCalls, toolbarOp,
                 reconcileVars, threadVars, hostVars, asyncVars, protoVars>>

(* the provider renders: the queued events reach the reducer and the       *)
(* context value is computed from the new state                            *)
renderProvider ==
  /\ updateQueue # <<>>
  /\ \E state \in {foldReducer(focusState, updateQueue)} :
       /\ focusState' = state
       /\ contextValue' = contextValueOf(state)
  /\ updateQueue' = <<>>
  /\ UNCHANGED <<focusEvents, focusTrace, twinState, twinPos, providerCalls, toolbarOp,
                 reconcileVars, threadVars, hostVars, asyncVars, protoVars>>

(* handleToggleBold, handleToggleItalic, handleInsertSquare,               *)
(* handleInsertCircle, handleInsertFlower: each with the values of the     *)
(* context it was rendered with                                            *)
handleToolbarCommand ==
  /\ \E command \in ToolbarCommands :
       \E sent \in {toolbarSends(contextValue.isMainEditorFocused,
                                 contextValue.focusedNoteId)} :
         toolbarOp' = [command |-> command, sent |-> sent]
  /\ UNCHANGED <<focusState, focusEvents, focusTrace, twinState, twinPos,
                 updateQueue, contextValue, providerCalls,
                 reconcileVars, threadVars, hostVars, asyncVars, protoVars>>

NextProvider ==
  \/ dispatchFocus
  \/ focusMainEditor
  \/ focusNote
  \/ blurMainEditor
  \/ blurNote
  \/ resetFocus
  \/ renderProvider
  \/ handleToolbarCommand

SpecProvider == InitProvider /\ [][NextProvider]_vars

(* ------------------- the registry's operations ------------------------- *)
InitAsync ==
  /\ pc = "async"
  /\ anchors = <<>> /\ currentNotes = <<>> /\ out = NoOutput
  /\ ThreadIdle
  /\ HostIdle
  /\ FocusIdle
  /\ AsyncIdle
  /\ ProtoIdle

sendAsyncMessage ==
  /\ Len(requests) < MaxRequests
  /\ \E random \in RandomParts : \E now \in Clock :
       \E messageId \in {generateMessageId(random, now)} :
         /\ subscriptions' = mapSet(subscriptions, messageId, Len(requests) + 1)
         /\ timeouts' = mapSet(timeouts, messageId, Len(requests) + 1)
         /\ requests' = Append(requests, [messageId |-> messageId, timer |-> "armed",
                                          resolved |-> <<>>])
         /\ asyncOp' = [op |-> "sendAsyncMessage", messageId |-> messageId,
                        value |-> Undefined, ret |-> FALSE]
  /\ UNCHANGED <<reconcileVars, threadVars, hostVars, focusVars, protoVars>>

handleResponse ==
  /\ \E messageId \in MessageIds : \E value \in Values :
       \E resolver \in {mapGet(subscriptions, messageId)} :
       \E timeoutId \in {mapGet(timeouts, messageId)} :
         IF resolver # 0
         THEN /\ subscriptions' = mapDelete(subscriptions, messageId)
              /\ timeouts' = IF timeoutId # 0
                             THEN mapDelete(timeouts, messageId)
                             ELSE timeouts
              /\ requests' =
                   [n \in 1..Len(requests) |->
                      [requests[n] EXCEPT
                         !.timer = IF n = timeoutId THEN clearTimeout(@) ELSE @,
                         !.resolved = IF n = resolver THEN resolve(@, value) ELSE @]]
              /\ asyncOp' = [op |-> "handleResponse", messageId |-> messageId,
                             value |-> value, ret |-> TRUE]
         ELSE /\ asyncOp' = [op |-> "handleResponse", messageId |-> messageId,
                             value |-> value, ret |-> FALSE]
              /\ UNCHANGED <<subscriptions, timeouts, requests>>
  /\ UNCHANGED <<reconcileVars, threadVars, hostVars, focusVars, protoVars>>

(* the callback handed to setTimeout by request n runs *)
timeoutCallback ==
  /\ \E n \in 1..Len(requests) :
       /\ requests[n].timer = "armed"
       /\ IF mapHas(subscriptions, requests[n].messageId)
          THEN /\ subscriptions' = mapDelete(subscriptions, requests[n].messageId)
               /\ timeouts' = mapDelete(timeouts, requests[n].messageId)
               /\ requests' = [requests EXCEPT ![n].timer = "fired",
                                               ![n].resolved = resolve(@, Null)]
          ELSE /\ requests' = [requests EXCEPT ![n].timer = "fired"]
               /\ UNCHANGED <<subscriptions, timeouts>>
       /\ asyncOp' = [op |-> "timeout", messageId |-> requests[n].messageId,
                      value |-> Undefined, ret |-> FALSE]
  /\ UNCHANGED <<reconcileVars, threadVars, hostVars, focusVars, protoVars>>

cleanup ==
  /\ requests' =
       [n \in 1..Len(requests) |->
          [requests[n] EXCEPT
             !.timer = IF \E m \in MessageIds : timeouts[m] = n
                       THEN clearTimeout(@) ELSE @]]
  /\ subscriptions' = EmptyMap
  /\ timeouts' = EmptyMap
  /\ asyncOp' = [op |-> "cleanup", messageId |-> Undefined, value |-> Undefined,
                 ret |-> FALSE]
  /\ UNCHANGED <<reconcileVars, threadVars, hostVars, focusVars, protoVars>>

NextAsync == sendAsyncMessage \/ handleResponse \/ timeoutCallback \/ cleanup

SpecAsync == InitAsync /\ [][NextAsync]_vars

(* timers that stay armed run their callback *)
SpecAsyncFair == SpecAsync /\ WF_vars(timeoutCallback)

(* sendAsyncMessage with a sendMessage that hands the response to          *)
(* handleResponse before it returns: the executor registers the resolver   *)
(* and the timer, then sendMessage runs handleResponse(messageId, value)   *)
sendAsyncMessageSync ==
  /\ Len(requests) < MaxRequests
  /\ \E random \in RandomParts : \E now \in Clock : \E value \in Values :
       \E messageId \in {generateMessageId(random, now)} :
       \E registered \in {mapSet(subscriptions, messageId, Len(requests) + 1)} :
       \E armed \in {mapSet(timeouts, messageId, Len(requests) + 1)} :
       \E sent \in {Append(requests, [messageId |-> messageId, timer |-> "armed",
                                      resolved |-> <<>>])} :
       \E resolver \in {mapGet(registered, messageId)} :
       \E timeoutId \in {mapGet(armed, messageId)} :
         IF resolver # 0
         THEN /\ subscriptions' = mapDelete(registered, messageId)
              /\ timeouts' = IF timeoutId # 0
                             THEN mapDelete(armed, messageId)
                             ELSE armed
              /\ requests' =
                   [n \in 1..Len(sent) |->
                      [sent[n] EXCEPT
                         !.timer = IF n = timeoutId THEN clearTimeout(@) ELSE @,
                         !.resolved = IF n = resolver THEN resolve(@, value) ELSE @]]
              /\ asyncOp' = [op |-> "sendAsyncMessageSync", messageId |-> messageId,
                             value |-> value, ret |-> TRUE]
         ELSE /\ subscriptions' = registered
              /\ timeouts' = armed
              /\ requests' = sent
              /\ asyncOp' = [op |-> "sendAsyncMessageSync", messageId |-> messageId,
                             value |-> value, ret |-> FALSE]
  /\ UNCHANGED <<reconcileVars, threadVars, hostVars, focusVars, protoVars>>

NextAsyncSync ==
  \/ sendAsyncMessage
  \/ sendAsyncMessageSync
  \/ handleResponse
  \/ timeoutCallback
  \/ cleanup

(* the registry behind a transport that may answer in the same call *)
SpecAsyncSync == InitAsync /\ [][NextAsyncSync]_vars

(* ------------------- calls into the protocol module -------------------- *)
TableKeys(entries) == {entries[k][1] : k \in 1..Len(entries)}

TableValues(entries) == {entries[k][2] : k \in 1..Len(entries)}

(* the names a caller may pass: every name of the three tables and one     *)
(* name of each style that no table has                                    *)
LegacyNames ==
  TableKeys(LEGACY_TO_NEW) \cup TableKeys(LegacyMainEditorMessageMap)
    \cup TableKeys(LegacyMarginEditorMessageMap) \cup {hyphen(<<"toggle", "strike">>)}

TypedNames ==
  TableValues(LEGACY_TO_NEW) \cup TableValues(LegacyMainEditorMessageMap)
    \cup TableValues(LegacyMarginEditorMessageMap) \cup {snake(<<"undo">>)}

CorrelationIds == {"c1", Undefined}

InitProtocol ==
  /\ pc = "protocol"
  /\ anchors = <<>> /\ currentNotes = <<>> /\ out = NoOutput
  /\ ThreadIdle
  /\ HostIdle
  /\ FocusIdle
  /\ AsyncIdle
  /\ ProtoIdle

callFromLegacyType ==
  /\ pc = "protocol"
  /\ pc' = "called"
  /\ \E legacyType \in LegacyNames :
       /\ protoArg' = legacyType
       /\ protoRes' = fromLegacyType(legacyType)
  /\ protoOp' = "fromLegacyType"
  /\ UNCHANGED <<anchors, currentNotes, out, threadVars, hostVars, focusVars, asyncVars>>

(* called with any typed name, or with what fromLegacyType just returned *)
callToLegacyType ==
  /\ pc = "protocol" \/ (pc = "called" /\ protoOp = "fromLegacyType")
  /\ pc' = IF pc = "protocol" THEN "called" ELSE "back"
  /\ \E newType \in (IF pc = "protocol" THEN TypedNames ELSE {protoRes}) :
       /\ protoArg' = newType
       /\ protoRes' = toLegacyType(newType)
  /\ protoOp' = "toLegacyType"
  /\ UNCHANGED <<anchors, currentNotes, out, threadVars, hostVars, focusVars, asyncVars>>

(* LegacyMainEditorMessageMap[legacyType] *)
lookupMain ==
  /\ pc = "protocol"
  /\ pc' = "called"
  /\ \E legacyType \in LegacyNames :
       /\ protoArg' = legacyType
       /\ protoRes' = objectGet(LegacyMainEditorMessageMap, legacyType)
  /\ protoOp' = "LegacyMainEditorMessageMap"
  /\ UNCHANGED <<anchors, currentNotes, out, threadVars, hostVars, focusVars, asyncVars>>

(* LegacyMarginEditorMessageMap[legacyType] *)
lookupMargin ==
  /\ pc = "protocol"
  /\ pc' = "called"
  /\ \E legacyType \in LegacyNames :
       /\ protoArg' = legacyType
       /\ protoRes' = objectGet(LegacyMarginEditorMessageMap, legacyType)
  /\ protoOp' = "LegacyMarginEditorMessageMap"
  /\ UNCHANGED <<anchors, currentNotes, out, threadVars, hostVars, focusVars, asyncVars>>

callCreateBaseMessage ==
  /\ pc = "protocol"
  /\ pc' = "called"
  /\ \E now \in Clock : \E correlationId \in CorrelationIds :
       /\ protoArg' = [now |-> now, correlationId |-> correlationId]
       /\ protoRes' = createBaseMessage(now, correlationId)
  /\ protoOp' = "createBaseMessage"
  /\ UNCHANGED <<anchors, currentNotes, out, threadVars, hostVars, focusVars, asyncVars>>

(* reconcile stamps each command it builds with createBaseMessage() *)
stampCommands ==
  /\ pc = "protocol"
  /\ pc' = "called"
  /\ \E A \in ThreadSnapshots : \E N \in SeqsUpTo(NoteData, 1) : \E now \in Clock :
       \E r \in {reconcile(A, N, now)} :
         /\ ~r.threw
         /\ protoArg' = [now |-> now, anchors |-> A, currentNotes |-> N]
         /\ protoRes' = [commands |-> r.commands]
  /\ protoOp' = "reconcile"
  /\ UNCHANGED <<anchors, currentNotes, out, threadVars, hostVars, focusVars, asyncVars>>

NextProtocol ==
  \/ callFromLegacyType \/ callToLegacyType \/ lookupMain \/ lookupMargin
  \/ callCreateBaseMessage \/ stampCommands

SpecProtocol == InitProtocol /\ [][NextProtocol]_vars

(* ======================= properties of reconcile ======================= *)
(* out is the value of reconcile(anchors, currentNotes) in these states *)
Returned == pc \in {"called", "again"}

PositionLE(a, b) ==
  a.line < b.line \/ (a.line = b.line /\ a.blockIndex <= b.blockIndex)

RemovedSet == IdsOf(currentNotes) \ IdsOf(anchors)

AddedSet == IdsOf(anchors) \ IdsOf(currentNotes)

CommandsOfType(t) == {i \in 1..Len(out.commands) : out.commands[i].type = t}

IndicesPayload(notes) ==
  [k \in 1..Len(notes) |-> [noteId |-> notes[k].id, noteIndex |-> notes[k].noteIndex]]

(* C1: for anchors with unique ids and any currentNotes, the returned notes *)
(* are sorted ascending by (line, blockIndex) and the note at 0-based      *)
(* position i has noteIndex i+1, so the indices are exactly 1..N.          *)
C1_OrderedAndIndexed ==
  (Returned /\ UniqueIds(anchors)) =>
    /\ \A i, j \in 1..Len(out.notes) : i < j => PositionLE(out.notes[i], out.notes[j])
    /\ \A i \in 1..Len(out.notes) : out.notes[i].noteIndex = i
    /\ {out.notes[i].noteIndex : i \in 1..Len(out.notes)} = 1..Len(out.notes)

C1_Witness ==
  /\ pc = "called" /\ UniqueIds(anchors) /\ Len(anchors) = 2
  /\ anchors[1].line = anchors[2].line /\ anchors[1].blockIndex > anchors[2].blockIndex
  /\ out.notes[1].id = anchors[2].id /\ out.notes[2].id = anchors[1].id
  /\ currentNotes # <<>>

(* C2: the ids of the returned notes are exactly the ids of the anchors     *)
(* (no stale note survives, every anchor has a note) and every note carries *)
(* the line and blockIndex of the anchor with its id.                       *)
C2_NotesMirrorAnchors ==
  Returned =>
    /\ IdsOf(out.notes) = IdsOf(anchors)
    /\ Len(out.notes) = Len(anchors)
    /\ \A i \in 1..Len(out.notes) : \E j \in 1..Len(anchors) :
         /\ anchors[j].id = out.notes[i].id
         /\ anchors[j].line = out.notes[i].line
         /\ anchors[j].blockIndex = out.notes[i].blockIndex
    /\ UniqueIds(anchors) =>
         \A i \in 1..Len(out.notes) : \A j \in 1..Len(anchors) :
           anchors[j].id = out.notes[i].id =>
             /\ anchors[j].line = out.notes[i].line
             /\ anchors[j].blockIndex = out.notes[i].blockIndex

C2_Witness ==
  /\ pc = "called" /\ UniqueIds(anchors) /\ Len(anchors) >= 2
  /\ \E i \in 1..Len(currentNotes) : currentNotes[i].id \notin IdsOf(anchors)
  /\ \E i \in 1..Len(currentNotes) : \E j \in 1..Len(anchors) :
       currentNotes[i].id = anchors[j].id /\ currentNotes[i].line # anchors[j].line

(* C3: idempotence. Feeding the returned notes back with the same anchors   *)
(* (unique ids) reports no change: hasChanges is false, added, removed and  *)
(* reordered are empty, and no insert or delete command is emitted.         *)
C3_Idempotent ==
  (pc = "again" /\ UniqueIds(anchors)) =>
    /\ ~out.diff.hasChanges
    /\ out.diff.added = <<>> /\ out.diff.removed = <<>> /\ out.diff.reordered = <<>>
    /\ CommandsOfType("INSERT_NOTE_BLOCK") = {}
    /\ CommandsOfType("DELETE_NOTE_BLOCK") = {}

C3_Witness ==
  /\ pc = "again" /\ UniqueIds(anchors) /\ Len(anchors) = 2 /\ out.notes = currentNotes
  /\ anchors[1].line > anchors[2].line

(* C4 as stated: the second call yields hasChanges = false and an empty     *)
(* commands list.                                                           *)
C4_AsStated ==
  (pc = "again" /\ UniqueIds(anchors)) =>
    (~out.diff.hasChanges /\ out.commands = <<>>)

(* C4, amended: the second call yields hasChanges = false; its commands     *)
(* list is empty when there are no anchors and otherwise holds exactly one  *)
(* command, the UPDATE_NOTE_INDICES listing every note.                     *)
C4_SecondCallCommands ==
  (pc = "again" /\ UniqueIds(anchors)) =>
    /\ ~out.diff.hasChanges
    /\ anchors = <<>> => out.commands = <<>>
    /\ anchors # <<>> =>
         /\ Len(out.commands) = 1
         /\ out.commands[1].type = "UPDATE_NOTE_INDICES"
         /\ out.commands[1].notes = IndicesPayload(out.notes)

C4_Witness ==
  /\ pc = "again" /\ UniqueIds(anchors) /\ Len(anchors) = 2
  /\ Len(out.commands) = 1 /\ Len(out.commands[1].notes) = 2

(* C5: deletion before insertion. Whenever removed and added are both       *)
(* non-empty, every DELETE_NOTE_BLOCK command is at an earlier position     *)
(* than every INSERT_NOTE_BLOCK command.                                    *)
C5_DeleteBeforeInsert ==
  (Returned /\ out.diff.removed # <<>> /\ out.diff.added # <<>>) =>
    \A i \in CommandsOfType("DELETE_NOTE_BLOCK") :
      \A j \in CommandsOfType("INSERT_NOTE_BLOCK") : i < j

C5_Witness ==
  /\ pc = "called" /\ out.diff.removed # <<>> /\ out.diff.added # <<>>
  /\ Cardinality(CommandsOfType("DELETE_NOTE_BLOCK")) = 2
  /\ Cardinality(CommandsOfType("INSERT_NOTE_BLOCK")) = 2

(* C6: for inputs with unique ids the commands are one DELETE_NOTE_BLOCK    *)
(* per removed id, then one INSERT_NOTE_BLOCK per added id carrying that    *)
(* id's noteIndex in the returned notes, then, iff the returned notes are   *)
(* non-empty, one final UPDATE_NOTE_INDICES listing (id, noteIndex) of      *)
(* every returned note in order; nothing else, and no surviving id is       *)
(* inserted or deleted.                                                     *)
C6_CommandShape ==
  (Returned /\ UniqueIds(anchors) /\ UniqueIds(currentNotes)) =>
    LET cmds == out.commands
        del == CommandsOfType("DELETE_NOTE_BLOCK")
        ins == CommandsOfType("INSERT_NOTE_BLOCK")
        upd == CommandsOfType("UPDATE_NOTE_INDICES")
    IN /\ {cmds[i].noteId : i \in del} = RemovedSet
       /\ Cardinality(del) = Cardinality(RemovedSet)
       /\ {cmds[i].noteId : i \in ins} = AddedSet
       /\ Cardinality(ins) = Cardinality(AddedSet)
       /\ \A i \in ins : \E k \in 1..Len(out.notes) :
            out.notes[k].id = cmds[i].noteId /\ out.notes[k].noteIndex = cmds[i].noteIndex
       /\ \A i \in del : \A j \in ins : i < j
       /\ \A i \in del \cup ins : \A j \in upd : i < j
       /\ Cardinality(upd) = (IF out.notes # <<>> THEN 1 ELSE 0)
       /\ \A j \in upd : j = Len(cmds) /\ cmds[j].notes = IndicesPayload(out.notes)
       /\ Len(cmds) = Cardinality(del) + Cardinality(ins) + Cardinality(upd)
       /\ \A i \in del \cup ins : cmds[i].noteId \notin (IdsOf(anchors) \cap IdsOf(currentNotes))

C6_Witness ==
  /\ pc = "called" /\ UniqueIds(anchors) /\ UniqueIds(currentNotes)
  /\ Len(anchors) = 2 /\ Len(currentNotes) = 2
  /\ Cardinality(RemovedSet) = 1 /\ Cardinality(AddedSet) = 1
  /\ \E i \in CommandsOfType("INSERT_NOTE_BLOCK") : out.commands[i].noteIndex = 2
  /\ Len(out.commands) = 3

(* C7: added is exactly the ids of the new notes absent from currentNotes,  *)
(* removed exactly the ids of currentNotes absent from the new notes,       *)
(* reordered exactly the ids in both whose noteIndex changed, and           *)
(* hasChanges is true iff one of the three lists is non-empty.              *)
C7_DiffExact ==
  Returned =>
    /\ Range(out.diff.added) = IdsOf(out.notes) \ IdsOf(currentNotes)
    /\ Range(out.diff.removed) = IdsOf(currentNotes) \ IdsOf(out.notes)
    /\ (UniqueIds(anchors) /\ UniqueIds(currentNotes)) =>
         /\ NoDup(out.diff.added) /\ NoDup(out.diff.removed) /\ NoDup(out.diff.reordered)
         /\ Range(out.diff.reordered) =
              {id \in IdsOf(currentNotes) \cap IdsOf(out.notes) :
                 \E i \in 1..Len(currentNotes) : \E k \in 1..Len(out.notes) :
                   /\ currentNotes[i].id = id /\ out.notes[k].id = id
                   /\ currentNotes[i].noteIndex # out.notes[k].noteIndex}
    /\ out.diff.hasChanges <=>
         (out.diff.added # <<>> \/ out.diff.removed # <<>> \/ out.diff.reordered # <<>>)

C7_Witness ==
  /\ pc = "called" /\ UniqueIds(anchors) /\ UniqueIds(currentNotes)
  /\ out.diff.added = <<>> /\ out.diff.removed = <<>>
  /\ Len(out.diff.reordered) = 2 /\ out.diff.hasChanges

(* C9: reconcile never fails. For every anchors list and currentNotes list, *)
(* duplicate ids and negative positions included, it returns a result       *)
(* without throwing; for empty inputs the result has no notes, no commands  *)
(* and hasChanges = false.                                                  *)
C9_NeverFails ==
  Returned =>
    /\ ~out.threw
    /\ Len(out.notes) = Len(anchors)
    /\ Len(out.commands) >= Len(out.diff.added) + Len(out.diff.removed)
    /\ (anchors = <<>> /\ currentNotes = <<>>) =>
         (out.notes = <<>> /\ out.commands = <<>> /\ ~out.diff.hasChanges)

C9_Witness ==
  /\ pc = "called" /\ ~UniqueIds(anchors) /\ ~UniqueIds(currentNotes)
  /\ \E j \in 1..Len(anchors) : anchors[j].line < 0
  /\ \E j \in 1..Len(anchors) : anchors[j].blockIndex < 0
  /\ Len(out.diff.added) >= 2 /\ ~out.threw /\ Len(out.commands) >= 3

(* C8: the returned notes do not depend on currentNotes. A caller that      *)
(* threads its note list through reconcile over any sequence of snapshots,  *)
(* starting from any note list, holds after each call exactly the notes     *)
(* reconcile returns for the latest snapshot and an empty currentNotes.     *)
C8_LatestSnapshotWins ==
  pc = "threaded" =>
    \A now \in Clock : threaded = reconcile(snapshot, <<>>, now).notes

C8_Witness ==
  /\ pc = "threaded" /\ Len(snapshot) = 2 /\ UniqueIds(snapshot)
  /\ threaded[1].id = snapshot[2].id /\ threaded[2].id = snapshot[1].id

(* C10: when reconcile reports hasChanges = false the host's anchor-change  *)
(* handler makes no call on the margin panel and leaves the marginNotes     *)
(* state and marginNotesRef as they were.                                   *)
C10_NoChangeNoDispatch ==
  [][(hostOp' = "anchors" /\ ~lastHasChanges') =>
       /\ panelCalls' = <<>>
       /\ marginNotesRef' = marginNotesRef
       /\ marginNotes' = marginNotes]_vars

C10_Witness ==
  /\ hostOp = "anchors" /\ ~lastHasChanges /\ Len(marginNotesRef) = 2
  /\ panelCalls = <<>>

(* ===================== properties of the focus machine ================= *)
Idle == [type |-> "IDLE"]

MainFocused == [type |-> "MAIN_FOCUSED"]

NoteFocused(id) == [type |-> "NOTE_FOCUSED", noteId |-> id]

NoteFocus(id) == [type |-> "NOTE_FOCUS", noteId |-> id]

(* the transition table as the claim words it *)
TableNext(s, e) ==
  CASE e.type = "RESET" -> Idle
    [] e.type = "MAIN_EDITOR_FOCUS" -> MainFocused
    [] e.type = "NOTE_FOCUS" -> NoteFocused(e.noteId)
    [] e.type = "MAIN_EDITOR_BLUR" -> IF s = MainFocused THEN Idle ELSE s
    [] e.type = "NOTE_BLUR" -> IF s.type = "NOTE_FOCUSED" THEN Idle ELSE s

(* the noteId of the last NOTE_FOCUS event dispatched, or null *)
LastNoteFocusId ==
  LET K == {k \in 1..Len(focusEvents) : focusEvents[k].type = "NOTE_FOCUS"}
  IN IF K = {} THEN Null
     ELSE focusEvents[CHOOSE k \in K : \A j \in K : j <= k].noteId

(* C11: every dispatched event moved the state as the transition table     *)
(* says: RESET to IDLE and MAIN_EDITOR_FOCUS to MAIN_FOCUSED from any      *)
(* state, NOTE_FOCUS(y) to NOTE_FOCUSED(y) from any state (also from       *)
(* NOTE_FOCUSED(y)), MAIN_EDITOR_BLUR to IDLE only from MAIN_FOCUSED,      *)
(* NOTE_BLUR to IDLE only from NOTE_FOCUSED, and no change otherwise.      *)
C11_TransitionTable ==
  /\ Len(focusTrace) = Len(focusEvents) + 1
  /\ focusTrace[1] = Idle
  /\ focusState = focusTrace[Len(focusTrace)]
  /\ \A k \in 1..Len(focusEvents) :
       focusTrace[k + 1] = TableNext(focusTrace[k], focusEvents[k])

C11_Witness ==
  /\ Len(focusEvents) = 3
  /\ focusEvents[1] = NoteFocus("n1")
  /\ focusEvents[2].type = "MAIN_EDITOR_BLUR"
  /\ focusTrace[3] = NoteFocused("n1")
  /\ focusEvents[3] = NoteFocus("n1")
  /\ focusState = NoteFocused("n1")

(* C12: the reducer is total: for each of the three kinds of state and     *)
(* each of the five kinds of event it returns IDLE, MAIN_FOCUSED or        *)
(* NOTE_FOCUSED with a note id, and every state reached from IDLE is one   *)
(* of these.                                                               *)
C12_Total ==
  /\ focusState \in FocusStates
  /\ \A s \in FocusStates : \A e \in FocusEvents : focusReducer(s, e) \in FocusStates

C12_Witness ==
  /\ Len(focusEvents) = 2
  /\ focusTrace[2] = MainFocused
  /\ focusEvents[2].type = "NOTE_BLUR"
  /\ focusState = MainFocused

C14_ToolbarTarget ==
  /\ getToolbarTarget(focusState) = "main" <=> focusState = MainFocused
  /\ getToolbarTarget(focusState) = "margin" <=> focusState.type = "NOTE_FOCUSED"
  /\ getToolbarTarget(focusState) = Null <=> focusState = Idle
  /\ \A k \in 1..Len(focusEvents) :
       focusTrace[k] = NoteFocused("n1") /\ focusEvents[k].type = "MAIN_EDITOR_FOCUS"
         => getToolbarTarget(focusTrace[k + 1]) = "main"

C14_Witness ==
  /\ Len(focusEvents) = 2
  /\ focusTrace[2] = NoteFocused("n1")
  /\ focusEvents[2].type = "MAIN_EDITOR_FOCUS"
  /\ getToolbarTarget(focusState) = "main"

(* C15: in every reachable state the selectors agree: isMainFocused and    *)
(* isNoteFocused are never both true, hasAnyFocus holds exactly when       *)
(* getToolbarTarget is not null, getFocusedNoteId is not null exactly when *)
(* isNoteFocused (and is then the noteId of the last NOTE_FOCUS event),    *)
(* and isSpecificNoteFocused(s, id) holds exactly when getFocusedNoteId(s) *)
(* is id.                                                                  *)
C15_SelectorsAgree ==
  /\ ~(isMainFocused(focusState) /\ isNoteFocused(focusState))
  /\ hasAnyFocus(focusState) <=> getToolbarTarget(focusState) # Null
  /\ getFocusedNoteId(focusState) # Null <=> isNoteFocused(focusState)
  /\ isNoteFocused(focusState) => getFocusedNoteId(focusState) = LastNoteFocusId
  /\ \A id \in Ids :
       isSpecificNoteFocused(focusState, id) <=> getFocusedNoteId(focusState) = id

C15_Witness ==
  /\ Len(focusEvents) = 3
  /\ focusEvents[1] = NoteFocus("n1")
  /\ focusEvents[2].type = "MAIN_EDITOR_FOCUS"
  /\ focusEvents[3] = NoteFocus("n2")
  /\ getFocusedNoteId(focusState) = "n2"
  /\ isSpecificNoteFocused(focusState, "n2")
  /\ ~isSpecificNoteFocused(focusState, "n1")

(* ================= properties of the correlation registry ============== *)
(* request n is the one registered under its id *)
Pending(n) == subscriptions[requests[n].messageId] = n

(* the request was answered: its resolver was called with a response value *)
Answered(n) == requests[n].resolved # <<>> /\ requests[n].resolved[1] \in Values

(* the request timed out: its resolver was called with null *)
TimedOut(n) == requests[n].resolved # <<>> /\ requests[n].resolved[1] = Null

(* C16: the resolver of every sendAsyncMessage call is invoked at most     *)
(* once, and the two paths exclude each other: a request that              *)
(* handleResponse matched has its timer cleared, so the timer never        *)
(* resolves it with null, and a request its timer resolved with null is no *)
(* longer registered, so no later handleResponse resolves it again.        *)
C16_ExactlyOnce ==
  \A n \in 1..Len(requests) :
    /\ Len(requests[n].resolved) <= 1
    /\ Answered(n) => requests[n].timer = "cleared" /\ ~Pending(n)
    /\ TimedOut(n) => requests[n].timer = "fired" /\ ~Pending(n)

C16_Witness ==
  /\ Len(requests) = 2
  /\ requests[1].resolved = <<"v1">>
  /\ requests[2].resolved = <<Null>>
  /\ requests[1].messageId # requests[2].messageId
  /\ asyncOp.op = "handleResponse"
  /\ asyncOp.messageId = requests[2].messageId
  /\ ~asyncOp.ret

(* C17: every request created by sendAsyncMessage is eventually no longer  *)
(* registered and its promise is eventually resolved, with the response    *)
(* value or with null.                                                     *)
C17_EventuallyResolved ==
  \A n \in 1..MaxRequests :
    [](n <= Len(requests)
         => <>(n <= Len(requests) /\ ~Pending(n) /\ requests[n].resolved # <<>>))

(* a handleResponse step, seen from the state before it: the id and value  *)
(* it was called with are those recorded in asyncOp after it               *)
C18_Step ==
  asyncOp'.op = "handleResponse" =>
    LET id == asyncOp'.messageId
        n == subscriptions[asyncOp'.messageId]
    IN /\ asyncOp'.ret <=> (n # 0)
       /\ n # 0 =>
            /\ requests[n].messageId = id
            /\ subscriptions'[id] = 0 /\ timeouts'[id] = 0
            /\ requests[n].timer = "armed" /\ requests'[n].timer = "cleared"
            /\ requests'[n].resolved = Append(requests[n].resolved, asyncOp'.value)
            /\ requests'[n].messageId = id
            /\ \A m \in 1..Len(requests) : m # n => requests'[m] = requests[m]
            /\ \A i \in MessageIds : i # id =>
                 subscriptions'[i] = subscriptions[i] /\ timeouts'[i] = timeouts[i]
       /\ n = 0 => UNCHANGED <<subscriptions, timeouts, requests>>

(* C18: handleResponse(id, value) returns true exactly when a request is   *)
(* registered under id at the call; it then removes the entry from both    *)
(* maps, cancels that request's timer and calls that request's resolver    *)
(* with value, touching no other request; otherwise it returns false and   *)
(* changes nothing.                                                        *)
C18_HandleResponse == [][C18_Step]_vars

C18_Witness ==
  /\ Len(requests) = 1
  /\ asyncOp.op = "handleResponse"
  /\ asyncOp.ret
  /\ asyncOp.value = "v2"
  /\ requests[1].resolved = <<"v2">>
  /\ requests[1].timer = "cleared"
  /\ subscriptions = EmptyMap /\ timeouts = EmptyMap

C19_Step ==
  /\ \A n \in 1..Len(requests) :
       (requests[n].timer = "armed" /\ requests'[n].timer = "fired"
          /\ \A m \in 1..Len(requests) :
               requests[m].messageId = requests[n].messageId => ~Answered(m))
         => /\ requests'[n].resolved = <<Null>>
            /\ subscriptions'[requests[n].messageId] = 0
            /\ timeouts'[requests[n].messageId] = 0
  /\ asyncOp'.op = "handleResponse" =>
       \A n \in 1..Len(requests) :
         (requests[n].messageId = asyncOp'.messageId
            /\ (requests[n].timer = "fired" \/ Answered(n)))
           => ~asyncOp'.ret /\ requests' = requests

(* C19: when the timer of a request runs out and no response carrying its *)
(* id was matched, the request's promise resolves with null and its id is  *)
(* in neither map; a handleResponse with the id of a request whose timer   *)
(* ran out, or that was already answered, returns false and calls no       *)
(* resolver.                                                               *)
C19_TimeoutThenDropped == [][C19_Step]_vars

C20_Step ==
  asyncOp'.op = "handleResponse" =>
    \A r1 \in 1..Len(requests) : \A r2 \in 1..Len(requests) :
      (r1 # r2 /\ Pending(r1) /\ Pending(r2)
         /\ asyncOp'.messageId = requests[r1].messageId)
        => /\ asyncOp'.ret
           /\ requests'[r1].resolved = <<asyncOp'.value>>
           /\ requests'[r2] = requests[r2]
           /\ requests'[r2].timer = "armed" /\ requests'[r2].resolved = <<>>
           /\ subscriptions'[requests[r2].messageId] = r2
           /\ timeouts'[requests[r2].messageId] = r2

(* C20: with two requests registered at once, a handleResponse for the id  *)
(* of one resolves that one with the value and leaves the other            *)
(* registered, unresolved and with its timer armed, whichever of the two   *)
(* was sent first.                                                         *)
C20_OnlyTheMatching == [][C20_Step]_vars

C20_Witness ==
  /\ Len(requests) = 2
  /\ asyncOp.op = "handleResponse"
  /\ asyncOp.ret
  /\ asyncOp.messageId = requests[2].messageId
  /\ requests[2].resolved = <<asyncOp.value>>
  /\ requests[1].resolved = <<>>
  /\ requests[1].timer = "armed"
  /\ Pending(1)

C21_Step ==
  asyncOp'.op = "sendAsyncMessage" =>
    /\ ~mapHas(subscriptions, asyncOp'.messageId)
    /\ ~mapHas(timeouts, asyncOp'.messageId)
    /\ \A n \in 1..Len(requests) : Pending(n) => Pending(n)'

(* C21: every sendAsyncMessage registers under an id that no pending       *)
(* request is registered under, so no request that was registered before   *)
(* the call has its resolver or timer entry overwritten by it.             *)
C21_FreshId == [][C21_Step]_vars

C22_Step ==
  /\ asyncOp'.op = "cleanup" =>
       /\ subscriptions' = EmptyMap
       /\ timeouts' = EmptyMap
       /\ \A n \in 1..Len(requests) : requests'[n].timer # "armed"
  /\ asyncOp.op = "cleanup" /\ asyncOp'.op = "handleResponse" => ~asyncOp'.ret

(* C22: after cleanup() both maps are empty, no timer armed before the     *)
(* call is left armed (so none of them fires later), and a handleResponse  *)
(* that follows returns false whatever its id.                             *)
C22_CleanupClears == [][C22_Step]_vars

(* ===================== properties of the protocol module =============== *)
C23_Step ==
  /\ protoOp' = "fromLegacyType" /\ protoArg' \in TableKeys(LEGACY_TO_NEW) =>
       /\ protoRes'.style = "UPPER_SNAKE"
       /\ Cardinality({k \in 1..Len(LEGACY_TO_NEW) : LEGACY_TO_NEW[k][1] = protoArg'}) = 1
       /\ \A n \in TableKeys(LEGACY_TO_NEW) :
            n # protoArg' => fromLegacyType(n) # protoRes'
  /\ pc' = "back" /\ protoArg \in TableKeys(LEGACY_TO_NEW) =>
       /\ protoArg' = protoRes
       /\ protoRes' = protoArg

(* C23: fromLegacyType gives every legacy name of LEGACY_TO_NEW exactly    *)
(* one typed name, no other legacy name of the table gets the same typed   *)
(* name, and toLegacyType applied to that typed name gives the legacy name *)
(* back.                                                                   *)
C23_LegacyRoundTrip == [][C23_Step]_vars

C23_Witness ==
  /\ pc = "back"
  /\ protoOp = "toLegacyType"
  /\ protoArg = snake(<<"content", "changed">>)
  /\ protoRes = hyphen(<<"content", "change">>)

(* the table a lookup step indexed *)
LookedUp ==
  IF protoOp = "LegacyMainEditorMessageMap" THEN LegacyMainEditorMessageMap
  ELSE LegacyMarginEditorMessageMap

IsLookup == protoOp \in {"LegacyMainEditorMessageMap", "LegacyMarginEditorMessageMap"}

(* the legacy names of the looked-up table that get the typed name t *)
LegacyNamesOf(t) == {n \in TableKeys(LookedUp) : objectGet(LookedUp, n) = t}

SharedMain ==
  {<<snake(<<"format">>), {hyphen(<<"toggle", "bold">>), hyphen(<<"toggle", "italic">>)}>>,
   <<snake(<<"insert", "shape">>),
     {hyphen(<<"insert", "square">>), hyphen(<<"insert", "circle">>),
      hyphen(<<"insert", "flower">>)}>>}

SharedMargin ==
  SharedMain \cup
  {<<snake(<<"editor", "focus">>),
     {hyphen(<<"editor", "focus">>), hyphen(<<"note", "block", "focus">>)}>>,
   <<snake(<<"update", "note", "indices">>),
     {hyphen(<<"update", "note", "block", "index">>),
      hyphen(<<"update", "all", "note", "block", "indices">>)}>>}

Shared == IF protoOp = "LegacyMainEditorMessageMap" THEN SharedMain ELSE SharedMargin

C25_Envelope ==
  /\ protoOp = "createBaseMessage" =>
       /\ protoRes.version = 1
       /\ protoRes.timestamp = protoArg.now
       /\ protoRes.correlationId = protoArg.correlationId
  /\ protoOp = "reconcile" =>
       \A k \in 1..Len(protoRes.commands) :
         /\ protoRes.commands[k].base.version = 1
         /\ protoRes.commands[k].base.timestamp \in Clock
         /\ protoRes.commands[k].base.timestamp = protoArg.now
         /\ protoRes.commands[k].base.correlationId = Undefined

C25_Witness ==
  /\ protoOp = "createBaseMessage"
  /\ protoArg.correlationId = "c1"
  /\ protoRes = [version |-> 1, timestamp |-> 2, correlationId |-> "c1"]

(* ------------- properties of the host and the margin document ---------- *)
BlockIds(doc) == {doc[k].noteId : k \in 1..Len(doc)}

(* C26: starting from an empty margin document and an empty note list,     *)
(* after the host has processed any sequence of snapshots, the noteIds of  *)
(* the margin blocks are the ids of the latest snapshot, and every block   *)
(* carries the noteIndex the host's note list gives its id, these being    *)
(* the distinct values 1..N                                                *)
C26_EndToEndAgreement ==
  hostOp = "anchors" =>
    /\ BlockIds(marginDoc) = IdsOf(lastAnchors)
    /\ \A k \in 1..Len(marginDoc) :
         \E j \in 1..Len(marginNotes) :
           /\ marginNotes[j].id = marginDoc[k].noteId
           /\ marginNotes[j].noteIndex = marginDoc[k].noteIndex
    /\ \A j \in 1..Len(marginNotes) : marginNotes[j].noteIndex = j

(* two snapshots in: a block was deleted, another inserted, one re-indexed *)
C26_Witness ==
  /\ hostOp = "anchors"
  /\ Len(marginDoc) = 2
  /\ \E k \in 1..Len(panelCalls) : panelCalls[k].op = "deleteNoteBlock"
  /\ \E k \in 1..Len(panelCalls) : panelCalls[k].op = "insertNoteBlock"
  /\ marginTrace[1] # <<>>

Ascending(doc) == \A k \in 1..(Len(doc) - 1) : doc[k].noteIndex < doc[k + 1].noteIndex

(* C27: after all commands of one reconcile result have been applied, the  *)
(* margin blocks stand in the document in ascending noteIndex order        *)
C27_PhysicalOrder ==
  (hostOp = "anchors" /\ panelCalls # <<>>) => Ascending(marginDoc)

CallIds(op) == {panelCalls[k].id : k \in {j \in 1..Len(panelCalls) : panelCalls[j].op = op}}

(* C28: while the margin editor works through one command sequence, no     *)
(* document it passes through holds a block inserted by the sequence       *)
(* together with a block the sequence deletes                              *)
C28_NoTransientCoexistence ==
  hostOp = "anchors" =>
    \A k \in 1..Len(marginTrace) :
      ~ /\ \E b \in 1..Len(marginTrace[k]) :
             /\ marginTrace[k][b].noteId \in CallIds("insertNoteBlock")
             /\ marginTrace[k][b].noteId \notin BlockIds(marginTrace[1])
        /\ \E b \in 1..Len(marginTrace[k]) :
             marginTrace[k][b].noteId \in CallIds("deleteNoteBlock")

(* one sequence deleted a block that was there and inserted a new one *)
C28_Witness ==
  /\ hostOp = "anchors"
  /\ CallIds("insertNoteBlock") # {}
  /\ CallIds("deleteNoteBlock") \cap BlockIds(marginTrace[1]) # {}
  /\ CallIds("insertNoteBlock") \subseteq BlockIds(marginDoc)

(* every block whose id is in the host's note list carries that note's index *)
Canonical(doc) ==
  \A k \in 1..Len(doc) : \A j \in 1..Len(marginNotes) :
    marginNotes[j].id = doc[k].noteId => doc[k].noteIndex = marginNotes[j].noteIndex

(* C29 as stated: whenever the host processes a snapshot while some block  *)
(* carries a noteIndex that is not the canonical one, afterwards every     *)
(* block whose id is in the note list carries the canonical noteIndex,     *)
(* unchanged snapshots included                                            *)
C29_DriftRepaired ==
  (hostOp = "anchors" /\ ~Canonical(marginTrace[1])) => Canonical(marginDoc)

(* C29 as amended: the same, for the snapshots that add, remove or reorder *)
(* a note; a snapshot without such a change is skipped                     *)
C29_DriftRepairedOnChange ==
  (hostOp = "anchors" /\ lastHasChanges /\ ~Canonical(marginTrace[1]))
    => Canonical(marginDoc)

(* a block that stays had a wrong index before a snapshot that removed     *)
(* another note                                                            *)
C29_Witness ==
  /\ hostOp = "anchors" /\ lastHasChanges
  /\ CallIds("deleteNoteBlock") # {}
  /\ \E k \in 1..Len(marginTrace[1]) :
       /\ marginTrace[1][k].noteId \in BlockIds(marginDoc)
       /\ marginTrace[1][k].noteIndex = 2
  /\ Len(marginDoc) = 1 /\ marginDoc[1].noteIndex = 1

(* C30: after handleAnchorsChanged has processed a snapshot, the host's    *)
(* note list is the notes field of reconcile on that snapshot: the same    *)
(* ids in the same order, and every note's line and blockIndex are those   *)
(* of the anchor with its id, also when only positions changed             *)
C30_NotesFollowSnapshot ==
  hostOp = "anchors" =>
    /\ marginNotes = reconcile(lastAnchors, <<>>, 1).notes
    /\ \A j \in 1..Len(marginNotes) : \A k \in 1..Len(lastAnchors) :
         lastAnchors[k].id = marginNotes[j].id =>
           /\ marginNotes[j].line = lastAnchors[k].line
           /\ marginNotes[j].blockIndex = lastAnchors[k].blockIndex

DeleteRequested(x) == hostOp = "deleteNoteFromPanel" /\ deleteArg = x

(* the host has handled a report without x: x is off the note list, the    *)
(* notes are indexed 1..N-1, and the deleteNoteBlock call for x found no   *)
(* block and left the margin document as it was                            *)
Converged(x) ==
  /\ hostOp = "anchors"
  /\ x \notin IdsOf(marginNotes)
  /\ \A j \in 1..Len(marginNotes) : marginNotes[j].noteIndex = j
  /\ \E k \in 1..Len(panelCalls) :
       /\ panelCalls[k].op = "deleteNoteBlock" /\ panelCalls[k].id = x
       /\ marginTrace[k + 1] = marginTrace[k]

Tied(a, b) == a.line = b.line /\ a.blockIndex = b.blockIndex

(* the noteIndex reconcile gave the note of the anchor with that id *)
IndexOfId(id) == out.notes[CHOOSE k \in 1..Len(out.notes) : out.notes[k].id = id].noteIndex

(* C33: anchors tied on (line, blockIndex) get consecutive noteIndex       *)
(* values in the order they have in the input list, and a second call on   *)
(* the same anchors returns the same notes                                 *)
C33_StableTies ==
  /\ (Returned /\ UniqueIds(anchors)) =>
       \A i, j \in 1..Len(anchors) :
         (i < j /\ Tied(anchors[i], anchors[j])) =>
           IndexOfId(anchors[j].id) - IndexOfId(anchors[i].id) =
             Cardinality({m \in (i + 1)..j : Tied(anchors[m], anchors[i])})
  /\ pc = "again" => out.notes = currentNotes

(* two anchors of one paragraph, with note data from an earlier state *)
C33_Witness ==
  /\ pc = "called" /\ UniqueIds(anchors) /\ Len(anchors) = 2
  /\ Tied(anchors[1], anchors[2])
  /\ out.notes[1].id = anchors[1].id /\ out.notes[2].id = anchors[2].id
  /\ out.notes[1].noteIndex = 1 /\ out.notes[2].noteIndex = 2
  /\ currentNotes # <<>>

(* ================= further properties of the focus machine ============= *)
(* the event does not match the state: a blur of a surface that does not   *)
(* hold the focus, or a focus of the main editor that already holds it     *)
Unmatched(s, e) ==
  \/ s = Idle /\ e.type \in {"MAIN_EDITOR_BLUR", "NOTE_BLUR"}
  \/ s = MainFocused /\ e.type \in {"MAIN_EDITOR_FOCUS", "NOTE_BLUR"}
  \/ s.type = "NOTE_FOCUSED" /\ e.type = "MAIN_EDITOR_BLUR"

(* C34: an event that does not match the state it is dispatched in leaves  *)
(* that state as it was, and the result is a state of the machine (the     *)
(* event is not rejected); after NOTE_FOCUS(n), MAIN_EDITOR_FOCUS and a    *)
(* late NOTE_BLUR the main editor still holds the focus.                   *)
C34_UnmatchedIgnored ==
  /\ \A k \in 1..Len(focusEvents) :
       Unmatched(focusTrace[k], focusEvents[k]) =>
         /\ focusTrace[k + 1] = focusTrace[k]
         /\ focusTrace[k + 1] \in FocusStates
  /\ \A k \in 1..(Len(focusEvents) - 2) :
       ( /\ focusEvents[k].type = "NOTE_FOCUS"
         /\ focusEvents[k + 1].type = "MAIN_EDITOR_FOCUS"
         /\ focusEvents[k + 2].type = "NOTE_BLUR" )
         => focusTrace[k + 3] = MainFocused

(* the late blur of the note that lost the focus to the main editor *)
C34_Witness ==
  /\ Len(focusEvents) = 3
  /\ focusEvents[1] = NoteFocus("n3")
  /\ focusEvents[2].type = "MAIN_EDITOR_FOCUS"
  /\ focusEvents[3].type = "NOTE_BLUR"
  /\ focusState = MainFocused

(* the state a focus or reset event fixes, whatever the state before it *)
FixedBy(e) ==
  CASE e.type = "MAIN_EDITOR_FOCUS" -> MainFocused
    [] e.type = "NOTE_FOCUS" -> NoteFocused(e.noteId)
    [] e.type = "RESET" -> Idle

Fixing(e) == e.type \in {"MAIN_EDITOR_FOCUS", "NOTE_FOCUS", "RESET"}

(* C35: when the last event dispatched is MAIN_EDITOR_FOCUS, NOTE_FOCUS(y) *)
(* or RESET, the state is MAIN_FOCUSED, NOTE_FOCUSED(y) or IDLE            *)
(* respectively, whatever events came before it and whatever state the     *)
(* run started in.                                                         *)
C35_LastEventWins ==
  /\ (focusEvents # <<>> /\ Fixing(focusEvents[Len(focusEvents)]))
       => focusState = FixedBy(focusEvents[Len(focusEvents)])
  /\ \A s \in FocusStates : \A e \in FocusEvents :
       Fixing(e) => focusReducer(s, e) = FixedBy(e)

(* a note takes the focus from another note after a blur that was ignored *)
C35_Witness ==
  /\ Len(focusEvents) = 3
  /\ focusEvents[1] = NoteFocus("n1")
  /\ focusEvents[2].type = "MAIN_EDITOR_BLUR"
  /\ focusEvents[3] = NoteFocus("n2")
  /\ focusState = NoteFocused("n2")

(* ============== properties of the provider and the toolbar ============= *)
(* the event a call on one of the context's functions stands for *)
EventOfCall(c) ==
  CASE c.call = "focusMainEditor" -> [type |-> "MAIN_EDITOR_FOCUS"]
    [] c.call = "focusNote" -> NoteFocus(c.arg)
    [] c.call = "blurMainEditor" -> [type |-> "MAIN_EDITOR_BLUR"]
    [] c.call = "blurNote" -> [type |-> "NOTE_BLUR"]
    [] c.call = "resetFocus" -> [type |-> "RESET"]
    [] c.call = "dispatchFocus" -> c.arg

EventsOfCalls == [k \in 1..Len(providerCalls) |-> EventOfCall(providerCalls[k])]

(* the provider has rendered every call made so far *)
Rendered == updateQueue = <<>>

(* C36: a provider on which no call was made is in IDLE with toolbarTarget *)
(* null, focusedNoteId null and no focus; once the provider has rendered   *)
(* the calls made on focusMainEditor, focusNote, blurMainEditor, blurNote, *)
(* resetFocus and dispatchFocus, its focusState is the fold of             *)
(* focusReducer from IDLE over the events of these calls in call order;    *)
(* and the derived values of the context are those of its focusState.      *)
C36_ProviderFollowsReducer ==
  /\ providerCalls = <<>> =>
       /\ contextValue.focusState = Idle
       /\ contextValue.toolbarTarget = Null
       /\ contextValue.focusedNoteId = Null
       /\ ~contextValue.isMainEditorFocused
       /\ ~contextValue.hasAnyEditorFocus
  /\ Rendered => contextValue.focusState = foldReducer(Idle, EventsOfCalls)
  /\ contextValue.isMainEditorFocused <=> contextValue.focusState = MainFocused
  /\ contextValue.focusedNoteId =
       (IF contextValue.focusState.type = "NOTE_FOCUSED"
        THEN contextValue.focusState.noteId ELSE Null)
  /\ contextValue.toolbarTarget =
       (CASE contextValue.focusState = MainFocused -> "main"
          [] contextValue.focusState.type = "NOTE_FOCUSED" -> "margin"
          [] OTHER -> Null)
  /\ contextValue.hasAnyEditorFocus <=> contextValue.focusState # Idle

(* three calls made before the provider rendered once, then rendered *)
C36_Witness ==
  /\ Rendered
  /\ Len(providerCalls) = 3
  /\ providerCalls[1].call = "focusNote" /\ providerCalls[1].arg = "n1"
  /\ providerCalls[2].call = "focusMainEditor"
  /\ providerCalls[3].call = "blurNote"
  /\ contextValue.focusState = MainFocused
  /\ contextValue.toolbarTarget = "main"

(* C37: a toolbar handler calls the main editor exactly when the           *)
(* toolbarTarget of the context it was rendered with is 'main', the margin *)
(* editor exactly when it is 'margin', and no editor when it is null; it   *)
(* never calls both.                                                       *)
C37_ToolbarRouting ==
  [][ toolbarOp' # toolbarOp =>
        /\ "main" \in toolbarOp'.sent <=> contextValue.toolbarTarget = "main"
        /\ "margin" \in toolbarOp'.sent <=> contextValue.toolbarTarget = "margin"
        /\ contextValue.toolbarTarget = Null => toolbarOp'.sent = {}
        /\ Cardinality(toolbarOp'.sent) <= 1 ]_vars

(* a format command issued after the focused note was blurred went to no   *)
(* editor                                                                  *)
C37_Witness ==
  /\ toolbarOp = [command |-> "toggleBold", sent |-> {}]
  /\ contextValue.toolbarTarget = Null
  /\ Len(providerCalls) = 2
  /\ providerCalls[1].call = "focusNote"
  /\ providerCalls[2].call = "blurNote"
  /\ Rendered

(* ============ a response delivered while the request is sent =========== *)
(* C38: when sendMessage hands the response to handleResponse before it    *)
(* returns, handleResponse returns true, the promise of the new request is *)
(* resolved once, with the response value, the message id has no entry in  *)
(* subscriptions or in timeouts, and the request's timer is cleared; a     *)
(* cleared timer never fires.                                              *)
C38_SynchronousResponse ==
  [][ /\ asyncOp'.op = "sendAsyncMessageSync" /\ Len(requests') = Len(requests) + 1 =>
           /\ asyncOp'.ret
           /\ requests'[Len(requests')].messageId = asyncOp'.messageId
           /\ requests'[Len(requests')].resolved = <<asyncOp'.value>>
           /\ requests'[Len(requests')].timer = "cleared"
           /\ ~mapHas(subscriptions', asyncOp'.messageId)
           /\ ~mapHas(timeouts', asyncOp'.messageId)
      /\ \A n \in 1..Len(requests) :
           requests[n].timer = "cleared" =>
             /\ requests'[n].timer = "cleared"
             /\ requests'[n].resolved = requests[n].resolved ]_vars

(* the answered request carries the id of a request that is still waiting *)
C38_Witness ==
  /\ asyncOp.op = "sendAsyncMessageSync" /\ asyncOp.ret /\ asyncOp.value = "v2"
  /\ Len(requests) = 2
  /\ requests[1].messageId = requests[2].messageId
  /\ requests[1].timer = "armed" /\ requests[1].resolved = <<>>
  /\ requests[2].timer = "cleared" /\ requests[2].resolved = <<"v2">>
====
